---------------------------- MODULE Spec2Model ----------------------------
(***************************************************************************)
(* A model of the learnet userspace IP stack (package ipstack):            *)
(*   - the TCP receive side  (tcp_recv.go: simpleTcpRecv, tcpAssembler,    *)
(*     tcpRecvBuffer),                                                     *)
(*   - the TCP send side     (tcp_send.go: simpleTcpSend, tcpWriteBuffer,  *)
(*     tcpSendTimer),                                                      *)
(*   - the stream multiplexer (multiplexer, childStream, forwardPackets).  *)
(*                                                                         *)
(* Sequence numbers are unsigned integers of SeqBits bits; the source uses *)
(* uint32 and an assembler window of 65536 bytes, here scaled to SeqMod    *)
(* and AsmLen so that wrap-around and window edges are reached.            *)
(***************************************************************************)
EXTENDS Integers, Sequences, FiniteSets, TLC

\* ------------------------------------------------------------------------
\* Bounds of the model
\* ------------------------------------------------------------------------
SeqBits == 3
SeqMod == 2 ^ SeqBits
AsmLen == 3
MaxBufSize == 3
MaxSegLen == 2
MaxReadLen == 2
\* The peer's byte stream has at most MaxStream bytes: long enough for data
\* and FIN to fall beyond the assembler window.
MaxStream == AsmLen + 1
\* Send side: the remote windows, the write sizes and the bytes written.
MaxWriteLen == 2
MaxBytes == 2
\* Multiplexer: the children forked, their readBuffer sizes and the packets
\* the underlying stream delivers.
MaxReadBuffer == 2
MaxPackets == 2
FloodReadBuffer == 1
\* Pipe: the bufferSize given to Pipe.
PipeBuffer == 1
\* Filter: the buffer of the Incoming() of the wrapped stream (a child of a
\* multiplexer forked with this readBuffer).
FilterBuffer == 1
\* Fragmentation: the longest payload of the packet handed to the
\* fragmenter, the reassembly timeout and the time that passes.
MaxPayloadLen == 17
DefragTimeout == 2
MaxClock == 3
NumPorts == 3           \* size of the port table (0x10000 in the source)
MaxUdpPayload == 3      \* longest UDP payload built
MaxDeadlines == 2       \* SetDeadline calls with a time that is not zero
MaxDups == 1            \* packets the network duplicates
MaxSyns == 2            \* SYN packets a listener takes from its fork
MaxFired == 1           \* functions of expired send timers waiting to run

VARIABLES
    \* --- TCP receive (simpleTcpRecv) ---
    asm,          \* tcpAssembler: [sequence, buffer, mask, fin]
    rbuf,         \* tcpRecvBuffer: [data, cap, hitEOF]
    rFailErr,     \* simpleTcpRecv.failErr # nil
    rWindowOpen,  \* number of values queued on windowOpen (capacity 1)
    rPanic,       \* tcpRecvBuffer.Put panicked ("buffer overflow")
    \* history of the receive side
    rStart,       \* startSeq given to newSimpleTcpRecv
    rStreamLen,   \* length n of the peer's byte stream; its FIN is at rStart+n
    rSeen,        \* sequence positions that some handled segment carried
    rFinSeen,     \* a segment carrying the FIN has been handled
    rRead         \* concatenation of the bytes returned by Read

recvVars == <<asm, rbuf, rFailErr, rWindowOpen, rPanic, rStart, rStreamLen,
              rSeen, rFinSeen, rRead>>

VARIABLES
    \* --- TCP send (simpleTcpSend) ---
    wbuf,         \* tcpWriteBuffer: [sequence, sendEOF, sentEOF, buffer]
    sWindow,      \* simpleTcpSend.window: the remote window
    sFailErr,     \* simpleTcpSend.failErr # nil
    sNext,        \* tcpSendTimer.next: the segments queued on Next() (capacity 1)
    sTimer,       \* tcpSendTimer.timer: [armed, seg]
    sDeadline,    \* the current write-deadline channel is closed
    sPanic,       \* "none", or the panic that ended the program
    writers,      \* per writer goroutine: its position in writeOrClose
    \* history of the send side
    sDeposited,   \* number of bytes deposited by Write so far; byte number i
                  \* of the stream sits at sequence position SendStart + i - 1
    sAdvance,     \* total distance the send sequence has moved
    sOffered,     \* numbers of the bytes put on Next() in some segment
    sFinOffered   \* a FIN segment has been put on Next()

sendVars == <<wbuf, sWindow, sFailErr, sNext, sTimer, sDeadline, sPanic,
              writers, sDeposited, sAdvance, sOffered, sFinOffered>>

VARIABLES
    \* --- multiplexer ---
    ustream,      \* the stream under the multiplexer: [in, inClosed, done, next]
    mux,          \* multiplexer: [closed, children, loop, pkt, taken, panic]
    kids          \* per child handed out by Fork: the childStream, its
                  \* forwarder and the writer and reader using it

muxVars == <<ustream, mux, kids>>

VARIABLES
    \* --- Pipe ---
    pipe,         \* the pair of pipeStreams: [done, closed, buf, out, inc,
                  \* incClosed]
    pSent,        \* per endpoint: the sends on its Outgoing() that completed
    pGot,         \* per endpoint: the packets received from its Incoming()
    pLate,        \* a packet was received from an Incoming() after Done closed
    pCloseRes     \* per endpoint: what its last Close() returned

pipeVars == <<pipe, pSent, pGot, pLate, pCloseRes>>

VARIABLES
    \* --- Filter ---
    filt,         \* the wrapped stream and the two filterChan goroutines
    fCalls,       \* the packets the filter functions were invoked on
    fLate,        \* a filter function was invoked after Done was closed
    fGot          \* the packets received from the filtered Incoming()

filtVars == <<filt, fCalls, fLate, fGot>>

VARIABLES
    \* --- IPv4 fragmenter and defragmenter ---
    fragIn,       \* the packet handed to ipv4Fragmenter.Write, the MTU and
                  \* what Write did: [pkt, mtu, written, err, count, foreign]
    wire,         \* the packets written downstream and not yet arrived
    clock,        \* time.Now()
    recons,       \* ipv4Defragmenter.reconstructions
    dOut,         \* the packets the defragmenting filter let through
    dLast,        \* the last arrival: [pkt, out, touched]
    dFirst,       \* arrival time of the first fragment of fragIn.pkt, or -1
    dTimely       \* every fragment of fragIn.pkt arrived within the timeout
                  \* of the first one

fragVars == <<fragIn, wire, clock, recons, dOut, dLast, dFirst, dTimely>>

VARIABLES
    \* --- TCP server handshake ---
    hs,           \* tcp4ServerHandshake: its locals, its position and what
                  \* it returned
    hstream       \* the stream given to it: [inc, incClosed, done]

hsVars == <<hs, hstream>>

VARIABLES
    \* --- established TCP connection ---
    conn,         \* tcp4Conn and its loop: [pc, sendDone, recvDone, closing,
                  \* next, windowOpen, reader, writer, acks]
    cstream       \* the stream under it: [inc, incClosed, done]

connVars == <<conn, cstream>>

VARIABLES
    \* --- basic port allocator ---
    ports,        \* basicPortAllocator: [Used, holder] (holder of Lock, 0 = free)
    pcall,        \* per caller: [pc, op, port, err, ret]
    paHeld        \* history: per port, successful allocations since the
                  \* last successful free of it

paVars == <<ports, pcall, paHeld>>

VARIABLES
    \* --- TCP net and its listeners ---
    lnet,         \* tcp4Net: [closed, cause] of its multiplexer
    lst           \* per listener: [st, port, under, muxClosed, rl, conns,
                  \* pc, closeRes, holds]

lstVars == <<lnet, lst>>

VARIABLES
    \* --- UDP net and its sockets ---
    unet,         \* udp4Net: [closed] of its multiplexer
    usock         \* per socket: [st, kind, port, alloc, done, freer, frees]

udpVars == <<unet, usock>>

VARIABLES
    \* --- UDP packets ---
    upkt          \* [src, dst, sport, dport, payload, udp, sum, stage]: the
                  \* arguments of NewUDP4Packet, the UDP header and payload
                  \* it built, and what Checksum() returned for them

ckVars == <<upkt>>

VARIABLES
    \* --- goroutines in simpleTcpRecv.Read ---
    rdr,          \* per reader: position in Read, len(b), whether the notify
                  \* channel it took is still open, and what it last returned
    rDeadline     \* the read deadline has fired (deadline.Chan() is closed)

rdVars == <<rdr, rDeadline>>

VARIABLES
    \* --- streamConn with one of its deadlineManagers ---
    dkind,        \* "read" or "write": the manager and the calls modelled
    dm,           \* deadlineManager: exceeded, waiters, cancelCurrent
    dgo,          \* the goroutines started by SetDeadline, by deadline number
    dcall,        \* per caller: position in ReadPacket/WritePacket, whether
                  \* its waiter's Chan is closed, and what the call returned
    dstream       \* the stream under the socket

dlVars == <<dkind, dm, dgo, dcall, dstream>>

VARIABLES
    \* --- a network that duplicates packets ---
    dDups         \* the packets duplicated on the way so far

dupVars == <<dDups>>

VARIABLES
    \* --- tcpSendTimer: the functions of expired timers ---
    sFired        \* the segments of the time.AfterFunc functions that have
                  \* been started and have not yet run tcpSendTimer.Send

tmVars == <<sFired>>

VARIABLES
    \* --- tcp4Listener.loop and Accept ---
    al            \* position of the loop, the conns channel (queued, closed),
                  \* whether the listener's multiplexer is closed, and what
                  \* Accept has returned

acVars == <<al>>

vars == <<recvVars, sendVars, muxVars, pipeVars, filtVars, fragVars, hsVars,
          connVars, paVars, lstVars,
    udpVars,
    ckVars,
    rdVars,
    dlVars,
    dupVars,
    tmVars,
    acVars>>

\* What the steps of one component leave alone: the other components.
notRecv == <<sendVars, muxVars, pipeVars, filtVars, fragVars, hsVars,
    connVars, paVars, lstVars,
    udpVars,
    ckVars,
    rdVars,
    dlVars,
    dupVars,
    tmVars,
    acVars>>
notSend == <<recvVars, muxVars, pipeVars, filtVars, fragVars, hsVars,
    connVars, paVars, lstVars,
    udpVars,
    ckVars,
    rdVars,
    dlVars,
    dupVars,
    tmVars,
    acVars>>
notMux == <<recvVars, sendVars, pipeVars, filtVars, fragVars, hsVars,
    connVars, paVars, lstVars,
    udpVars,
    ckVars,
    rdVars,
    dlVars,
    dupVars,
    tmVars,
    acVars>>
notPipe == <<recvVars, sendVars, muxVars, filtVars, fragVars, hsVars,
    connVars, paVars, lstVars,
    udpVars,
    ckVars,
    rdVars,
    dlVars,
    dupVars,
    tmVars,
    acVars>>
notFilt == <<recvVars, sendVars, muxVars, pipeVars, fragVars, hsVars,
    connVars, paVars, lstVars,
    udpVars,
    ckVars,
    rdVars,
    dlVars,
    dupVars,
    tmVars,
    acVars>>
notFrag == <<recvVars, sendVars, muxVars, pipeVars, filtVars, hsVars,
    connVars, paVars, lstVars,
    udpVars,
    ckVars,
    rdVars,
    dlVars,
    dupVars,
    tmVars,
    acVars>>
notHs == <<recvVars, sendVars, muxVars, pipeVars, filtVars, fragVars,
    connVars, paVars, lstVars,
    udpVars,
    ckVars,
    rdVars,
    dlVars,
    dupVars,
    tmVars,
    acVars>>
notConn == <<recvVars, sendVars, muxVars, pipeVars, filtVars, fragVars,
    hsVars, paVars, lstVars,
    udpVars,
    ckVars,
    rdVars,
    dlVars,
    dupVars,
    tmVars,
    acVars>>
notPa == <<recvVars, sendVars, muxVars, pipeVars, filtVars, fragVars,
    hsVars, connVars, lstVars,
    udpVars,
    ckVars,
    rdVars,
    dlVars,
    dupVars,
    tmVars,
    acVars>>
notLst == <<recvVars, sendVars, muxVars, pipeVars, filtVars, fragVars,
    hsVars, connVars, pcall,
    udpVars,
    ckVars,
    rdVars,
    dlVars,
    dupVars,
    tmVars,
    acVars>>
notUdp == <<recvVars, sendVars, muxVars, pipeVars, filtVars, fragVars, hsVars,
    connVars, pcall, lstVars,
    ckVars,
    rdVars,
    dlVars,
    dupVars,
    tmVars,
    acVars>>
notCk == <<recvVars, sendVars, muxVars, pipeVars, filtVars, fragVars, hsVars,
    connVars, paVars, lstVars, udpVars,
    rdVars,
    dlVars,
    dupVars,
    tmVars,
    acVars>>
notRd == <<recvVars, sendVars, muxVars, pipeVars, filtVars, fragVars, hsVars,
    connVars, paVars, lstVars, udpVars, ckVars,
    dlVars,
    dupVars,
    tmVars,
    acVars>>
notRecvRd == <<sendVars, muxVars, pipeVars, filtVars, fragVars, hsVars, connVars,
    paVars, lstVars, udpVars, ckVars,
    dlVars,
    dupVars,
    tmVars,
    acVars>>
notDl == <<recvVars, sendVars, muxVars, pipeVars, filtVars, fragVars, hsVars,
    connVars, paVars, lstVars, udpVars, ckVars, rdVars,
    dupVars,
    tmVars,
    acVars>>
notDup == <<recvVars, sendVars, muxVars, pipeVars, filtVars, fragVars, hsVars,
    connVars, paVars, lstVars, udpVars, ckVars, rdVars, dlVars,
    tmVars,
    acVars>>
notFragDup == <<recvVars, sendVars, muxVars, pipeVars, filtVars, hsVars, connVars,
    paVars, lstVars, udpVars, ckVars, rdVars, dlVars,
    tmVars,
    acVars>>
notTm == <<recvVars, sendVars, muxVars, pipeVars, filtVars, fragVars, hsVars,
    connVars, paVars, lstVars, udpVars, ckVars, rdVars, dlVars, dupVars,
    acVars>>
notSendTm == <<recvVars, muxVars, pipeVars, filtVars, fragVars, hsVars, connVars,
    paVars, lstVars, udpVars, ckVars, rdVars, dlVars, dupVars,
    acVars>>
notAc == <<recvVars, sendVars, muxVars, pipeVars, filtVars, fragVars, hsVars,
    connVars, paVars, lstVars, udpVars, ckVars, rdVars, dlVars, dupVars,
    tmVars>>
notHsAc == <<recvVars, sendVars, muxVars, pipeVars, filtVars, fragVars, connVars,
    paVars, lstVars, udpVars, ckVars, rdVars, dlVars, dupVars, tmVars>>

\* ------------------------------------------------------------------------
\* Helpers
\* ------------------------------------------------------------------------
Mod(x) == (x + SeqMod * 4) % SeqMod

Min(a, b) == IF a < b THEN a ELSE b

\* The byte the peer's stream carries at a sequence position.
ByteAt(pos) == pos

\* The payload of a segment of len bytes starting at sequence position start.
DataAt(start, len) == [i \in 1..len |-> ByteAt(Mod(start + i - 1))]

\* ------------------------------------------------------------------------
\* tcpAssembler
\* ------------------------------------------------------------------------
newTCPAssembler(seq) ==
    [sequence |-> seq,
     buffer   |-> [k \in 1..AsmLen |-> 0],
     mask     |-> [k \in 1..AsmLen |-> FALSE],
     fin      |-> -2]

\* The loop of AddSegment writes s.Data[i] at offset i + s.Start - t.sequence
\* (uint32) when that offset is inside the buffer; SegIndex is the i that
\* lands on offset k.
SegIndex(t, s, k) == Mod(k + t.sequence - s.Start)

AddSegment(t, s) ==
    IF t.fin = 0 \/ t.fin = -1 THEN t
    ELSE
      LET finOffset == Mod(s.Start + Len(s.Data) - t.sequence)
      IN [t EXCEPT !.buffer = [k \in 1..AsmLen |->
                                 IF SegIndex(t, s, k - 1) < Len(s.Data)
                                 THEN s.Data[SegIndex(t, s, k - 1) + 1]
                                 ELSE t.buffer[k]],
                   !.mask   = [k \in 1..AsmLen |->
                                 t.mask[k] \/ SegIndex(t, s, k - 1) < Len(s.Data)],
                   !.fin    = IF s.Fin /\ finOffset <= AsmLen
                              THEN finOffset ELSE t.fin]

\* A faulty variant of the loop of Skim, which does not look at the mask.
SkimStopIgnoringMask(t, maxBytes, i) ==
    IF t.fin >= 0 /\ t.fin < Min(maxBytes, AsmLen) THEN t.fin
    ELSE Min(maxBytes, AsmLen)

\* The loop of Skim: the index at which the scan over t.mask stops
\* (AsmLen when the range is exhausted).
RECURSIVE SkimStop(_, _, _)
SkimStop(t, maxBytes, i) ==
    IF i >= AsmLen THEN AsmLen
    ELSE IF i = t.fin THEN i
    ELSE IF i = maxBytes \/ ~t.mask[i + 1] THEN i
    ELSE SkimStop(t, maxBytes, i + 1)

\* Skim returns [t, avail, eof]: the assembler afterwards, the bytes skimmed
\* and the EOF flag.
Skim(t, maxBytes) ==
    IF t.fin = -1 THEN [t |-> t, avail |-> <<>>, eof |-> TRUE]
    ELSE
      LET stop     == SkimStop(t, maxBytes, 0)
          eof      == stop < AsmLen /\ stop = t.fin
          avail    == SubSeq(t.buffer, 1, stop)
          readSize == Len(avail) + (IF eof THEN 1 ELSE 0)
      IN [t |-> [sequence |-> Mod(t.sequence + readSize),
                 fin      |-> t.fin - readSize,
                 buffer   |-> [k \in 1..AsmLen |->
                                 IF k + readSize <= AsmLen
                                 THEN t.buffer[k + readSize]
                                 ELSE t.buffer[k]],
                 mask     |-> [k \in 1..AsmLen |->
                                 IF k + readSize <= AsmLen
                                 THEN t.mask[k + readSize]
                                 ELSE FALSE]],
          avail |-> avail,
          eof   |-> eof]

\* ------------------------------------------------------------------------
\* tcpRecvBuffer
\* ------------------------------------------------------------------------
newTCPRecvBuffer(bufSize) == [data |-> <<>>, cap |-> bufSize, hitEOF |-> FALSE]

Window(b) == b.cap - Len(b.data)

\* A faulty variant of Put, which loses the bytes handed to it.
PutDropped(b, data) == b

Put(b, data) == [b EXCEPT !.data = b.data \o data]

PutEOF(b) == [b EXCEPT !.hitEOF = TRUE]

\* Get returns [b, out, eof].
Get(b, len) ==
    LET canRead == Min(Len(b.data), len)
    IN [b   |-> [b EXCEPT !.data = SubSeq(b.data, canRead + 1, Len(b.data))],
        out |-> SubSeq(b.data, 1, canRead),
        eof |-> Len(b.data) - canRead = 0 /\ b.hitEOF]

\* ------------------------------------------------------------------------
\* simpleTcpRecv
\* ------------------------------------------------------------------------
RecvStart == SeqMod - 1

RecvInit ==
    /\ rStart = RecvStart
    /\ rStreamLen \in 1..MaxStream
    /\ \E bufSize \in 1..MaxBufSize : rbuf = newTCPRecvBuffer(bufSize)
    /\ asm = newTCPAssembler(rStart)
    /\ rFailErr = FALSE
    /\ rWindowOpen = 0
    /\ rPanic = FALSE
    /\ rSeen = {}
    /\ rFinSeen = FALSE
    /\ rRead = <<>>

\* simpleTcpRecv.Handle
RecvHandle(s) ==
    /\ ~rPanic
    /\ LET added   == AddSegment(asm, s)
           skimmed == Skim(added, Window(rbuf))
       IN IF Len(skimmed.avail) > Window(rbuf)
          THEN /\ rPanic' = TRUE
               /\ asm' = skimmed.t
               /\ UNCHANGED rbuf
          ELSE /\ asm' = skimmed.t
               /\ rbuf' = IF skimmed.eof
                          THEN PutEOF(Put(rbuf, skimmed.avail))
                          ELSE Put(rbuf, skimmed.avail)
               /\ UNCHANGED rPanic
    /\ rSeen' = rSeen \cup {Mod(s.Start + i) : i \in 0..(Len(s.Data) - 1)}
    /\ rFinSeen' = (rFinSeen \/ s.Fin)
    /\ UNCHANGED <<notRecv, rFailErr, rWindowOpen, rStart, rStreamLen, rRead>>

\* What Read returns from the delivery buffer b: the bytes and the error.
ReadResult(b, len) ==
    LET got == Get(b, len)
    IN [n   |-> Len(got.out),
        err |-> IF got.eof THEN "EOF"
                ELSE IF Len(got.out) > 0 THEN "nil"
                ELSE IF rFailErr THEN "fail"
                ELSE "blocked"]

\* simpleTcpRecv.Read with len(b) = len, for the calls that find the deadline
\* channel open and return; a call that finds no data, no EOF and no error
\* waits on notify and retries, which is this action becoming enabled later.
\* (A call that finds the deadline expired returns the timeout error and
\* leaves the receiver as it was.)
RecvRead(len) ==
    /\ ~rPanic
    /\ ReadResult(rbuf, len).err # "blocked"
    /\ LET got == Get(rbuf, len)
       IN /\ rbuf' = got.b
          /\ rWindowOpen' = IF Window(got.b) # 0 /\ Window(rbuf) = 0
                            THEN 1 ELSE rWindowOpen
          /\ rRead' = rRead \o got.out
    /\ UNCHANGED <<notRecv, asm, rFailErr, rPanic, rStart, rStreamLen, rSeen, rFinSeen>>

\* simpleTcpRecv.Fail
RecvFail ==
    /\ ~rPanic
    /\ ~rFailErr
    /\ rFailErr' = TRUE
    /\ UNCHANGED <<notRecv, asm, rbuf, rWindowOpen, rPanic, rStart, rStreamLen,
                   rSeen, rFinSeen, rRead>>

\* simpleTcpRecv.Ack
RecvAck == asm.sequence

\* simpleTcpRecv.Window: uint16(s.buffer.Window()), a conversion that keeps
\* the low WindowBits bits.
WindowBits == 16

RecvWindow == Window(rbuf) % (2 ^ WindowBits)

\* newSimpleTcpRecv with delivery buffers up to and beyond what 16 bits hold.
BigBufSizes == {1, MaxBufSize, 2 ^ WindowBits - 1, 2 ^ WindowBits, 2 ^ WindowBits + 1}

BigRecvInit ==
    /\ rStart = RecvStart
    /\ rStreamLen \in 1..MaxStream
    /\ \E bufSize \in BigBufSizes : rbuf = newTCPRecvBuffer(bufSize)
    /\ asm = newTCPAssembler(rStart)
    /\ rFailErr = FALSE
    /\ rWindowOpen = 0
    /\ rPanic = FALSE
    /\ rSeen = {}
    /\ rFinSeen = FALSE
    /\ rRead = <<>>

\* simpleTcpRecv.Done
RecvDone == rbuf.hitEOF \/ rFailErr

\* A segment is a slice of the peer's stream of rStreamLen bytes; the FIN
\* flag may be set only on a slice that ends the stream.
IsStreamSlice(s) ==
    LET a == Mod(s.Start - rStart)
    IN /\ a + Len(s.Data) <= rStreamLen
       /\ s.Fin => a + Len(s.Data) = rStreamLen

\* Every segment of at most MaxSegLen bytes in which each sequence position
\* carries its byte.
Segments ==
    {[Start |-> start, Data |-> DataAt(start, len), Fin |-> fin] :
        start \in 0..(SeqMod - 1), len \in 0..MaxSegLen, fin \in BOOLEAN}

\* The connection hands a segment of the peer to Handle; the peer sends the
\* slices of its stream in any order and any number of times.
PeerSends(s) ==
    /\ IsStreamSlice(s)
    /\ RecvHandle(s)

RecvNext ==
    \/ \E s \in Segments : PeerSends(s)
    \/ \E len \in 0..MaxReadLen : RecvRead(len)
    \/ RecvFail

\* ------------------------------------------------------------------------
\* tcpWriteBuffer
\* ------------------------------------------------------------------------
newTCPWriteBuffer(seq) ==
    [sequence |-> seq, sendEOF |-> FALSE, sentEOF |-> FALSE, buffer |-> <<>>]

Remaining(t) ==
    IF t.sendEOF /\ ~t.sentEOF THEN 1 ELSE Len(t.buffer)

\* SetData and SetEOF panic when something is already being sent.
SetDataPanics(t) == Len(t.buffer) > 0 \/ t.sendEOF

SetData(t, data) == [t EXCEPT !.buffer = data]

SetEOFPanics(t) == Len(t.buffer) > 0

SetEOF(t) == [t EXCEPT !.sendEOF = TRUE]

\* A faulty variant of tcpWriteBuffer.Handle, which takes every ack as
\* covering all that is pending.
WriteBufHandleAnyAck(t, ack) ==
    [t EXCEPT !.sequence = ack, !.sentEOF = t.sendEOF, !.buffer = <<>>]

\* tcpWriteBuffer.Handle
WriteBufHandle(t, ack) ==
    LET offset == Mod(ack - t.sequence)
    IN IF offset > Remaining(t) THEN t
       ELSE IF offset = Remaining(t)
       THEN [t EXCEPT !.sequence = Mod(t.sequence + Remaining(t)),
                      !.sentEOF  = t.sendEOF,
                      !.buffer   = <<>>]
       ELSE [t EXCEPT !.sequence = Mod(t.sequence + offset),
                      !.buffer   = SubSeq(t.buffer, offset + 1, Len(t.buffer))]

\* A faulty variant of tcpWriteBuffer.Segment, which does not cut the
\* buffer to maxSize.
SegmentWhole(t, maxSize) ==
    [Start |-> t.sequence, Data |-> IF t.sendEOF THEN <<>> ELSE t.buffer,
     Fin |-> t.sendEOF]

\* tcpWriteBuffer.Segment, called only when Remaining(t) > 0.
Segment(t, maxSize) ==
    IF t.sendEOF
    THEN [Start |-> t.sequence, Data |-> <<>>, Fin |-> TRUE]
    ELSE [Start |-> t.sequence,
          Data  |-> SubSeq(t.buffer, 1, Min(Len(t.buffer), maxSize)),
          Fin   |-> FALSE]

\* ------------------------------------------------------------------------
\* tcpSendTimer, as a record [next, timer, offered]: the channel, the timer
\* and the segments that went into the channel.
\* ------------------------------------------------------------------------
NoTimer == [armed |-> FALSE, seg |-> <<>>]

\* tcpSendTimer.Send: a non-blocking send on next, then schedule(seg).
TimerSend(next, seg) ==
    [next    |-> IF Len(next) < 1 THEN Append(next, seg) ELSE next,
     timer   |-> [armed |-> TRUE, seg |-> seg],
     offered |-> IF Len(next) < 1 THEN {seg} ELSE {}]

\* tcpSendTimer.Schedule
TimerSchedule(next, seg) ==
    [next |-> next, timer |-> [armed |-> TRUE, seg |-> seg], offered |-> {}]

\* tcpSendTimer.Cancel
TimerCancel(next) == [next |-> next, timer |-> NoTimer, offered |-> {}]

\* ------------------------------------------------------------------------
\* simpleTcpSend
\* ------------------------------------------------------------------------
SendStart == SeqMod - 2
\* The maximum segment size given to newSimpleTcpSend.
SendMSS == 2
\* The remote windows: closed, below the MSS, above the MSS.
Windows == {0, 1, SendMSS + 1}
Writers == {1, 2}
\* The acks the peer sends, as distances from the send sequence: nothing
\* new, part of a write, all of it, more than was written, and an old ack
\* one behind the sequence.
AckOffsets == (0..(MaxWriteLen + 1)) \cup {SeqMod - 1}

IdleWriter == [pc |-> "idle", close |-> FALSE, len |-> 0, end |-> 0,
               ntf |-> FALSE, dl |-> "none"]

SendInit ==
    /\ wbuf = newTCPWriteBuffer(SendStart)
    /\ sWindow \in Windows
    /\ sFailErr = FALSE
    /\ sNext = <<>>
    /\ sTimer = NoTimer
    /\ sDeadline = FALSE
    /\ sPanic = "none"
    /\ writers = [w \in Writers |-> IdleWriter]
    /\ sDeposited = 0
    /\ sAdvance = 0
    /\ sOffered = {}
    /\ sFinOffered = FALSE

\* simpleTcpSend.Done
SendDone == wbuf.sentEOF \/ sFailErr

\* simpleTcpSend.sendNext for write buffer t and remote window win.
sendNext(t, win, next) ==
    IF Remaining(t) = 0 THEN TimerCancel(next)
    ELSE IF win = 0 THEN TimerSchedule(next, Segment(t, 1))
    ELSE TimerSend(next, Segment(t, Min(win, SendMSS)))

\* The history of what went into the Next() channel.
NoteOffered(segs) ==
    /\ sOffered' = sOffered \cup UNION {{s.Data[i] : i \in 1..Len(s.Data)} : s \in segs}
    /\ sFinOffered' = (sFinOffered \/ \E s \in segs : s.Fin)

WriteLockFree == \A w \in Writers : writers[w].pc = "idle"

\* What writeOrClose does on entry, before it deposits anything: "timeout"
\* (a Write finds the deadline expired), "closedpipe", "fail", "panic" (SetData
\* or SetEOF refuses) or "deposit".
EnterOutcome(close) ==
    IF ~close /\ sDeadline THEN "timeout"
    ELSE IF wbuf.sendEOF THEN "closedpipe"
    ELSE IF sFailErr THEN "fail"
    ELSE IF (close /\ SetEOFPanics(wbuf)) \/ (~close /\ SetDataPanics(wbuf)) THEN "panic"
    ELSE "deposit"

\* writeOrClose returns at once with an error (res): the deadline has
\* expired, EOF was already requested, or Fail was called.
SendRefuse(w, close, res) ==
    /\ sPanic = "none"
    /\ WriteLockFree
    /\ res \in {"timeout", "closedpipe", "fail"}
    /\ EnterOutcome(close) = res
    /\ UNCHANGED vars

\* writeOrClose up to the wait on notify: the writer takes writeLock, a Write
\* looks at the deadline, and under s.lock the data or the EOF is deposited
\* and sendNext runs.
SendEnter(w, close, len) ==
    /\ sPanic = "none"
    /\ WriteLockFree
    /\ sDeposited + len <= MaxBytes
    /\ EnterOutcome(close) \in {"panic", "deposit"}
    /\ IF EnterOutcome(close) = "panic"
       THEN /\ sPanic' = "already sending something"
            /\ UNCHANGED <<wbuf, sNext, sTimer, writers, sDeposited, sOffered, sFinOffered>>
       ELSE LET data == [i \in 1..len |-> sDeposited + i]
                t    == IF close THEN SetEOF(wbuf) ELSE SetData(wbuf, data)
                sent == sendNext(t, sWindow, sNext)
            IN /\ wbuf' = t
               /\ sNext' = sent.next
               /\ sTimer' = sent.timer
               /\ NoteOffered(sent.offered)
               /\ sDeposited' = sDeposited + (IF close THEN 0 ELSE len)
               /\ writers' = [writers EXCEPT ![w] =
                     [pc |-> "wait", close |-> close, len |-> len,
                      end |-> sDeposited + (IF close THEN 0 ELSE len),
                      ntf |-> FALSE,
                      dl  |-> IF sDeadline THEN "fired" ELSE "current"]]
               /\ UNCHANGED sPanic
    /\ UNCHANGED <<notSend, sWindow, sFailErr, sDeadline, sAdvance>>

\* The select after the deposit takes the notify case.
SendWakeNotify(w) ==
    /\ sPanic = "none"
    /\ writers[w].pc = "wait"
    /\ writers[w].ntf
    /\ writers' = [writers EXCEPT ![w].pc = "post"]
    /\ UNCHANGED <<notSend, wbuf, sWindow, sFailErr, sNext, sTimer, sDeadline, sPanic,
                   sDeposited, sAdvance, sOffered, sFinOffered>>

\* The select after the deposit takes the deadline case: writeOrClose
\* returns (0, writeTimeoutErr) and releases writeLock.
SendWakeTimeout(w) ==
    /\ sPanic = "none"
    /\ writers[w].pc = "wait"
    /\ writers[w].dl = "fired"
    /\ writers' = [writers EXCEPT ![w] = IdleWriter]
    /\ UNCHANGED <<notSend, wbuf, sWindow, sFailErr, sNext, sTimer, sDeadline, sPanic,
                   sDeposited, sAdvance, sOffered, sFinOffered>>

\* The end of writeOrClose: under s.lock it returns res, which is failErr
\* ("fail") or (len(data), nil) ("ok").
SendReturn(w, res) ==
    /\ sPanic = "none"
    /\ writers[w].pc = "post"
    /\ res = (IF sFailErr THEN "fail" ELSE "ok")
    /\ writers' = [writers EXCEPT ![w] = IdleWriter]
    /\ UNCHANGED <<notSend, wbuf, sWindow, sFailErr, sNext, sTimer, sDeadline, sPanic,
                   sDeposited, sAdvance, sOffered, sFinOffered>>

\* close(s.notify): every writer waiting on notify finds it closed.
NotifyAll(ws) == [w \in Writers |->
                    IF ws[w].pc = "wait" THEN [ws[w] EXCEPT !.ntf = TRUE] ELSE ws[w]]

\* A faulty variant of simpleTcpSend.Handle, which closes notify whether or
\* not the write buffer is drained.
SendHandleAlwaysNotifies(ack, window) ==
    /\ sPanic = "none"
    /\ LET t    == WriteBufHandle(wbuf, ack)
           sent == sendNext(t, window, sNext)
       IN /\ wbuf' = t
          /\ sWindow' = window
          /\ sNext' = sent.next
          /\ sTimer' = sent.timer
          /\ NoteOffered(sent.offered)
          /\ sAdvance' = sAdvance + Mod(t.sequence - wbuf.sequence)
          /\ writers' = NotifyAll(writers)
    /\ UNCHANGED <<notSend, sFailErr, sDeadline, sPanic, sDeposited>>

\* simpleTcpSend.Handle
SendHandle(ack, window) ==
    /\ sPanic = "none"
    /\ LET t    == WriteBufHandle(wbuf, ack)
           sent == sendNext(t, window, sNext)
       IN /\ wbuf' = t
          /\ sWindow' = window
          /\ sNext' = sent.next
          /\ sTimer' = sent.timer
          /\ NoteOffered(sent.offered)
          /\ sAdvance' = sAdvance + Mod(t.sequence - wbuf.sequence)
          /\ writers' = IF Remaining(t) = 0 THEN NotifyAll(writers) ELSE writers
    /\ UNCHANGED <<notSend, sFailErr, sDeadline, sPanic, sDeposited>>

\* A faulty variant of simpleTcpSend.Fail, which leaves notify open.
SendFailSilent ==
    /\ sPanic = "none"
    /\ ~sFailErr
    /\ sFailErr' = TRUE
    /\ UNCHANGED <<notSend, wbuf, sWindow, sNext, sTimer, sDeadline, sPanic,
                   sDeposited, sAdvance, sOffered, sFinOffered, writers>>

\* simpleTcpSend.Fail
SendFail ==
    /\ sPanic = "none"
    /\ ~sFailErr
    /\ sFailErr' = TRUE
    /\ writers' = NotifyAll(writers)
    /\ UNCHANGED <<notSend, wbuf, sWindow, sNext, sTimer, sDeadline, sPanic,
                   sDeposited, sAdvance, sOffered, sFinOffered>>

\* The timer set by schedule expires and its function runs:
\* tcpSendTimer.Send(seg).
SendTimerFire ==
    /\ sPanic = "none"
    /\ sTimer.armed
    /\ LET sent == TimerSend(sNext, sTimer.seg)
       IN /\ sNext' = sent.next
          /\ sTimer' = sent.timer
          /\ NoteOffered(sent.offered)
    /\ UNCHANGED <<notSend, wbuf, sWindow, sFailErr, sDeadline, sPanic, writers,
                   sDeposited, sAdvance>>

\* The connection loop receives a segment from Next().
SendNextTaken ==
    /\ sPanic = "none"
    /\ Len(sNext) > 0
    /\ sNext' = Tail(sNext)
    /\ UNCHANGED <<notSend, wbuf, sWindow, sFailErr, sTimer, sDeadline, sPanic, writers,
                   sDeposited, sAdvance, sOffered, sFinOffered>>

\* The deadline channel that writeOrClose selects on (deadlineManager.Chan())
\* has no definition in the source; it is taken as the specification of the
\* deadline manager describes it: a fired signal, closed when the deadline
\* passes, and replaced by a fresh one on SetDeadline.
\*
\* The write deadline passes: the deadline channel is closed.
SendDeadlineFires ==
    /\ sPanic = "none"
    /\ ~sDeadline
    /\ sDeadline' = TRUE
    /\ writers' = [w \in Writers |->
                     IF writers[w].dl = "current"
                     THEN [writers[w] EXCEPT !.dl = "fired"] ELSE writers[w]]
    /\ UNCHANGED <<notSend, wbuf, sWindow, sFailErr, sNext, sTimer, sPanic,
                   sDeposited, sAdvance, sOffered, sFinOffered>>

\* simpleTcpSend.SetDeadline: a new deadline with a fresh channel; the
\* channel of the old deadline, if still open, stays open.
SendSetDeadline ==
    /\ sPanic = "none"
    /\ sDeadline
    /\ sDeadline' = FALSE
    /\ writers' = [w \in Writers |->
                     IF writers[w].dl = "current"
                     THEN [writers[w] EXCEPT !.dl = "stale"] ELSE writers[w]]
    /\ UNCHANGED <<notSend, wbuf, sWindow, sFailErr, sNext, sTimer, sPanic,
                   sDeposited, sAdvance, sOffered, sFinOffered>>

SendNext ==
    \/ \E w \in Writers, len \in 1..MaxWriteLen : SendEnter(w, FALSE, len)
    \/ \E w \in Writers : SendEnter(w, TRUE, 0)
    \/ \E w \in Writers, close \in BOOLEAN, res \in {"timeout", "closedpipe", "fail"} :
          SendRefuse(w, close, res)
    \/ \E w \in Writers : SendWakeNotify(w)
    \/ \E w \in Writers : SendWakeTimeout(w)
    \/ \E w \in Writers, res \in {"ok", "fail"} : SendReturn(w, res)
    \/ \E off \in AckOffsets, window \in Windows :
          SendHandle(Mod(wbuf.sequence + off), window)
    \/ SendFail
    \/ SendTimerFire
    \/ SendNextTaken
    \/ SendDeadlineFires
    \/ SendSetDeadline

\* ------------------------------------------------------------------------
\* The stream under the multiplexer (Stream): its Incoming() channel, which
\* is closed when the stream closes or disconnects, and its Done() channel.
\* Packets are numbered 1, 2, ... in the order the stream delivers them; 0 is
\* the zero value a receive from the closed Incoming() yields.
\* ------------------------------------------------------------------------
NewStream == [in |-> <<>>, inClosed |-> FALSE, done |-> FALSE, next |-> 1]

\* Stream.Close(), and a disconnect: Done() is closed.
StreamClose(u) == [u EXCEPT !.done = TRUE]

\* ------------------------------------------------------------------------
\* multiplexer and childStream
\* ------------------------------------------------------------------------
\* The children Fork hands out, in this order.
ChildIds == {1, 2}

NoChild == [forked |-> FALSE, cap |-> 0, queue |-> <<>>, incClosed |-> FALSE,
            doneClosed |-> FALSE, last |-> 0, writer |-> "idle", fwd |-> "none"]

NewMux == [closed |-> FALSE, children |-> <<>>, loop |-> "select", pkt |-> 0,
           taken |-> 0, panic |-> "none"]

MuxInit ==
    /\ ustream = NewStream
    /\ mux = NewMux
    /\ kids = [c \in ChildIds |-> NoChild]

Range(seq) == {seq[i] : i \in 1..Len(seq)}

\* close(child.done); close(child.incoming) for every child in cs. Closing a
\* closed channel panics.
ClosePanics(ks, cs) == \E c \in cs : ks[c].doneClosed \/ ks[c].incClosed

CloseChildren(ks, cs) ==
    [c \in ChildIds |-> IF c \in cs
                        THEN [ks[c] EXCEPT !.doneClosed = TRUE, !.incClosed = TRUE]
                        ELSE ks[c]]

\* A faulty variant of UnorderedDelete, which drops the last element
\* whatever i is.
UnorderedDeleteLast(list, i) == SubSeq(list, 1, Len(list) - 1)

\* essentials.UnorderedDelete(&m.children, i): the last element takes the
\* place of element i and the list loses its last place.
UnorderedDelete(list, i) ==
    SubSeq([list EXCEPT ![i] = list[Len(list)]], 1, Len(list) - 1)

\* The body of multiplexer.Close() when the multiplexer is open.
CloseEffect ==
    IF ClosePanics(kids, Range(mux.children))
    THEN /\ mux' = [mux EXCEPT !.closed = TRUE, !.panic = "close of closed channel"]
         /\ ustream' = StreamClose(ustream)
         /\ UNCHANGED kids
    ELSE /\ mux' = [mux EXCEPT !.closed = TRUE]
         /\ ustream' = StreamClose(ustream)
         /\ kids' = CloseChildren(kids, Range(mux.children))

\* multiplexer.Close() called on the MultiStream; res is what it returns.
MuxClose(res) ==
    /\ mux.panic = "none"
    /\ IF mux.closed
       THEN /\ res = "AlreadyClosedErr"
            /\ UNCHANGED <<mux, ustream, kids>>
       ELSE /\ res = "nil"
            /\ CloseEffect
    /\ UNCHANGED <<notMux>>

\* multiplexer.Fork(readBuffer): the next child, with its forwarder started.
MuxFork(c, readBuffer) ==
    /\ mux.panic = "none"
    /\ ~kids[c].forked
    /\ \A d \in ChildIds : d < c => kids[d].forked
    /\ IF mux.closed
       THEN UNCHANGED <<mux, kids>>
       ELSE /\ mux' = [mux EXCEPT !.children = Append(mux.children, c)]
            /\ kids' = [kids EXCEPT ![c] = [NoChild EXCEPT !.forked = TRUE,
                                                            !.cap = readBuffer,
                                                            !.fwd = "recv"]]
    /\ UNCHANGED <<ustream, notMux>>

\* The index of child c in list, 0 when it is not there (the loop of childClose).
RECURSIVE IndexOf(_, _, _)
IndexOf(list, c, i) ==
    IF i > Len(list) THEN 0
    ELSE IF list[i] = c THEN i
    ELSE IndexOf(list, c, i + 1)

\* multiplexer.childClose(child), i.e. childStream.Close(); res is what it
\* returns ("panic" when close() hits a closed channel).
MuxChildClose(c, res) ==
    /\ mux.panic = "none"
    /\ kids[c].forked
    /\ LET i == IndexOf(mux.children, c, 1)
       IN IF i = 0
          THEN /\ res = "AlreadyClosedErr"
               /\ UNCHANGED <<mux, kids>>
          ELSE IF ClosePanics(kids, {c})
          THEN /\ res = "panic"
               /\ mux' = [mux EXCEPT !.children = UnorderedDelete(mux.children, i),
                                     !.panic = "close of closed channel"]
               /\ UNCHANGED kids
          ELSE /\ res = "nil"
               /\ mux' = [mux EXCEPT !.children = UnorderedDelete(mux.children, i)]
               /\ kids' = CloseChildren(kids, {c})
    /\ UNCHANGED <<ustream, notMux>>

\* readLoop's select takes a packet from the stream's Incoming().
MuxLoopRecv ==
    /\ mux.panic = "none"
    /\ mux.loop = "select"
    /\ ustream.in # <<>>
    /\ mux' = [mux EXCEPT !.loop = "handle", !.pkt = Head(ustream.in),
                          !.taken = Head(ustream.in)]
    /\ ustream' = [ustream EXCEPT !.in = Tail(ustream.in)]
    /\ UNCHANGED <<kids, notMux>>

\* readLoop's select takes the Incoming() case when the channel is closed:
\* the receive yields the zero value.
MuxLoopRecvClosed ==
    /\ mux.panic = "none"
    /\ mux.loop = "select"
    /\ ustream.in = <<>>
    /\ ustream.inClosed
    /\ mux' = [mux EXCEPT !.loop = "handle", !.pkt = 0]
    /\ UNCHANGED <<ustream, kids, notMux>>

\* readLoop's select takes the stream's Done() or the closeChan case.
MuxLoopDone ==
    /\ mux.panic = "none"
    /\ mux.loop = "select"
    /\ ustream.done \/ mux.closed
    /\ mux' = [mux EXCEPT !.loop = "closing"]
    /\ UNCHANGED <<ustream, kids, notMux>>

\* A faulty variant of the fan-out, with a send that waits: while some child
\* in the list has no room, no child gets the packet.
FanOutStalls(ks, cs, pkt) ==
    IF \E c \in cs : Len(ks[c].queue) >= ks[c].cap THEN ks
    ELSE [c \in ChildIds |-> IF c \in cs
                             THEN [ks[c] EXCEPT !.queue = Append(ks[c].queue, pkt)]
                             ELSE ks[c]]

\* The fan-out of handleIncoming: a non-blocking send of a copy of the packet
\* to every child in the list.
FanOut(ks, cs, pkt) ==
    [c \in ChildIds |-> IF c \in cs /\ Len(ks[c].queue) < ks[c].cap
                        THEN [ks[c] EXCEPT !.queue = Append(ks[c].queue, pkt)]
                        ELSE ks[c]]

\* multiplexer.handleIncoming(packet) and readLoop's reaction to its result.
MuxHandleIncoming ==
    /\ mux.panic = "none"
    /\ mux.loop = "handle"
    /\ IF mux.closed
       THEN /\ mux' = [mux EXCEPT !.loop = "closing", !.pkt = 0]
            /\ UNCHANGED kids
       ELSE IF \E c \in Range(mux.children) : kids[c].incClosed
       THEN /\ mux' = [mux EXCEPT !.panic = "send on closed channel"]
            /\ UNCHANGED kids
       ELSE /\ mux' = [mux EXCEPT !.loop = "select", !.pkt = 0]
            /\ kids' = FanOut(kids, Range(mux.children), mux.pkt)
    /\ UNCHANGED <<ustream, notMux>>

\* A faulty variant of the return of readLoop, without the deferred
\* m.Close().
MuxLoopCloseForgotten ==
    /\ mux.panic = "none"
    /\ mux.loop = "closing"
    /\ mux' = [mux EXCEPT !.loop = "exit"]
    /\ UNCHANGED <<ustream, kids, notMux>>

\* readLoop returns: the deferred m.Close() runs.
MuxLoopClose ==
    /\ mux.panic = "none"
    /\ mux.loop = "closing"
    /\ IF mux.closed
       THEN /\ mux' = [mux EXCEPT !.loop = "exit"]
            /\ UNCHANGED <<ustream, kids>>
       ELSE IF ClosePanics(kids, Range(mux.children))
       THEN /\ mux' = [mux EXCEPT !.closed = TRUE, !.loop = "exit",
                                  !.panic = "close of closed channel"]
            /\ ustream' = StreamClose(ustream)
            /\ UNCHANGED kids
       ELSE /\ mux' = [mux EXCEPT !.closed = TRUE, !.loop = "exit"]
            /\ ustream' = StreamClose(ustream)
            /\ kids' = CloseChildren(kids, Range(mux.children))
    /\ UNCHANGED <<notMux>>

\* The stream under the multiplexer delivers its next packet on Incoming().
StreamDeliver ==
    /\ mux.panic = "none"
    /\ ~ustream.done
    /\ ~ustream.inClosed
    /\ ustream.in = <<>>
    /\ ustream.next <= MaxPackets
    /\ ustream' = [ustream EXCEPT !.in = <<ustream.next>>, !.next = ustream.next + 1]
    /\ UNCHANGED <<mux, kids, notMux>>

\* The stream under the multiplexer delivers an empty packet, again and
\* again: a flood of equal packets.
StreamFlood ==
    /\ mux.panic = "none"
    /\ ~ustream.done
    /\ ~ustream.inClosed
    /\ ustream.in = <<>>
    /\ ustream' = [ustream EXCEPT !.in = <<0>>]
    /\ UNCHANGED <<mux, kids, notMux>>

\* The stream under the multiplexer disconnects: Done() is closed.
StreamDisconnect ==
    /\ mux.panic = "none"
    /\ ~ustream.done
    /\ ustream' = StreamClose(ustream)
    /\ UNCHANGED <<mux, kids, notMux>>

\* After Done() the stream closes Incoming(); a packet it was still offering
\* is dropped.
StreamCloseIncoming ==
    /\ mux.panic = "none"
    /\ ustream.done
    /\ ~ustream.inClosed
    /\ ustream' = [ustream EXCEPT !.inClosed = TRUE, !.in = <<>>]
    /\ UNCHANGED <<mux, kids, notMux>>

\* The reader of child c receives the next packet from child.Incoming().
ChildRecv(c) ==
    /\ mux.panic = "none"
    /\ kids[c].forked
    /\ kids[c].queue # <<>>
    /\ kids' = [kids EXCEPT ![c].queue = Tail(kids[c].queue),
                            ![c].last = Head(kids[c].queue)]
    /\ UNCHANGED <<ustream, mux, notMux>>

\* Send(child, data) up to its second select: with Done() closed it returns
\* WriteClosedErr at once, otherwise the writer blocks on child.Outgoing().
ChildSend(c, res) ==
    /\ mux.panic = "none"
    /\ kids[c].forked
    /\ kids[c].writer = "idle"
    /\ IF kids[c].doneClosed
       THEN /\ res = "WriteClosedErr"
            /\ UNCHANGED kids
       ELSE /\ res = "blocked"
            /\ kids' = [kids EXCEPT ![c].writer = "blocked"]
    /\ UNCHANGED <<ustream, mux, notMux>>

\* The child's forwarder receives the writer's packet from child.outgoing:
\* Send returns nil.
ChildSendAccepted(c) ==
    /\ mux.panic = "none"
    /\ kids[c].writer = "blocked"
    /\ kids[c].fwd = "recv"
    /\ kids' = [kids EXCEPT ![c].writer = "idle", ![c].fwd = "hold"]
    /\ UNCHANGED <<ustream, mux, notMux>>

\* The second select of Send takes the Done() case: WriteClosedErr.
ChildSendReleased(c) ==
    /\ mux.panic = "none"
    /\ kids[c].writer = "blocked"
    /\ kids[c].doneClosed
    /\ kids' = [kids EXCEPT ![c].writer = "idle"]
    /\ UNCHANGED <<ustream, mux, notMux>>

Cancelled(c) == kids[c].doneClosed \/ mux.closed

\* forwardPackets, holding a packet, polls its cancel channels.
FwdCheck(c) ==
    /\ mux.panic = "none"
    /\ kids[c].fwd = "hold"
    /\ kids' = [kids EXCEPT ![c].fwd = IF Cancelled(c) THEN "exit" ELSE "send"]
    /\ UNCHANGED <<ustream, mux, notMux>>

\* forwardPackets hands its packet to the Outgoing() of the underlying stream.
FwdForward(c) ==
    /\ mux.panic = "none"
    /\ kids[c].fwd = "send"
    /\ kids' = [kids EXCEPT ![c].fwd = "recv"]
    /\ UNCHANGED <<ustream, mux, notMux>>

\* A select of forwardPackets takes the cancel case.
FwdCancel(c) ==
    /\ mux.panic = "none"
    /\ kids[c].fwd \in {"recv", "send"}
    /\ Cancelled(c)
    /\ kids' = [kids EXCEPT ![c].fwd = "exit"]
    /\ UNCHANGED <<ustream, mux, notMux>>

\* The steps of the multiplexer, of the stream under it and of the readers
\* of its children.
MuxCommon ==
    \/ \E res \in {"nil", "AlreadyClosedErr"} : MuxClose(res)
    \/ \E c \in ChildIds, res \in {"nil", "AlreadyClosedErr", "panic"} : MuxChildClose(c, res)
    \/ MuxLoopRecv
    \/ MuxLoopRecvClosed
    \/ MuxLoopDone
    \/ MuxHandleIncoming
    \/ MuxLoopClose
    \/ StreamDisconnect
    \/ StreamCloseIncoming
    \/ \E c \in ChildIds : ChildRecv(c)

\* The writers of the children and their forwarders.
MuxWriters ==
    \/ \E c \in ChildIds, res \in {"WriteClosedErr", "blocked"} : ChildSend(c, res)
    \/ \E c \in ChildIds : ChildSendAccepted(c)
    \/ \E c \in ChildIds : ChildSendReleased(c)
    \/ \E c \in ChildIds : FwdCheck(c)
    \/ \E c \in ChildIds : FwdForward(c)
    \/ \E c \in ChildIds : FwdCancel(c)

\* The incoming direction, with numbered packets.
MuxNext ==
    \/ MuxCommon
    \/ \E c \in ChildIds, readBuffer \in 1..MaxReadBuffer : MuxFork(c, readBuffer)
    \/ StreamDeliver

\* Both directions, under a flood of equal packets.
MuxFloodNext ==
    \/ MuxCommon
    \/ \E c \in ChildIds : MuxFork(c, FloodReadBuffer)
    \/ StreamFlood
    \/ MuxWriters

\* ------------------------------------------------------------------------
\* Pipe (checksum.go: Pipe, pipeStream; chan_util.go: forwardPackets)
\* ------------------------------------------------------------------------
\* pipe1 and pipe2.
Endpoints == {1, 2}

Other(e) == 3 - e

\* A forwardPackets goroutine waiting in its outer select.
FwdIdle == [pc |-> "recv", pkt |-> 0]

\* Pipe(PipeBuffer).  buf[e] is the buffered channel fed from the Outgoing()
\* of endpoint e (right for pipe1, left for pipe2); out[e] is the forwarder
\* reading pipe_e.outgoing, inc[e] the forwarder writing pipe_e.incoming,
\* reader[e] the goroutine receiving from pipe_e.Incoming().
NewPipe ==
    [done |-> FALSE,
     closed |-> [e \in Endpoints |-> FALSE],
     buf |-> [e \in Endpoints |-> <<>>],
     out |-> [e \in Endpoints |-> FwdIdle],
     inc |-> [e \in Endpoints |-> FwdIdle],
     incClosed |-> [e \in Endpoints |-> FALSE],
     reader |-> [e \in Endpoints |-> "idle"]]

PipeInit ==
    /\ pipe = NewPipe
    /\ pSent = [e \in Endpoints |-> 0]
    /\ pGot = [e \in Endpoints |-> <<>>]
    /\ pLate = FALSE
    /\ pCloseRes = [e \in Endpoints |-> "none"]

\* pipeStream.Close: the shared done channel is closed by the first of the
\* two endpoints to be closed.
PipeClose(e) ==
    /\ IF pipe.closed[e]
       THEN /\ pCloseRes' = [pCloseRes EXCEPT ![e] = "AlreadyClosedErr"]
            /\ UNCHANGED pipe
       ELSE /\ pCloseRes' = [pCloseRes EXCEPT ![e] = "nil"]
            /\ pipe' = [pipe EXCEPT !.closed[e] = TRUE,
                                    !.done = @ \/ ~pipe.closed[Other(e)]]
    /\ UNCHANGED <<pSent, pGot, pLate, notPipe>>

\* A send on pipe_e.outgoing completes: the forwarder reading that
\* unbuffered channel is in its outer select and takes the src case.
PipeOutTake(e, p) ==
    /\ pipe.out[e].pc = "recv"
    /\ pipe' = [pipe EXCEPT !.out[e] = [pc |-> "poll", pkt |-> p]]

\* A goroutine sends the next packet on the Outgoing() of endpoint e.
PipeWrite(e) ==
    /\ pSent[e] < MaxPackets
    /\ PipeOutTake(e, pSent[e] + 1)
    /\ pSent' = [pSent EXCEPT ![e] = @ + 1]
    /\ UNCHANGED <<pGot, pLate, pCloseRes, notPipe>>

\* forwardPackets, after a receive: the non-blocking poll of done.
PipeOutPoll(e) ==
    /\ pipe.out[e].pc = "poll"
    /\ pipe' = [pipe EXCEPT !.out[e].pc = IF pipe.done THEN "exit" ELSE "send"]
    /\ UNCHANGED <<pSent, pGot, pLate, pCloseRes, notPipe>>

\* A forwarder that ignores the capacity of the buffered channel.
PipeOutSendUnbounded(e) ==
    /\ pipe.out[e].pc = "send"
    /\ pipe' = [pipe EXCEPT !.buf[e] = Append(@, pipe.out[e].pkt),
                            !.out[e] = FwdIdle]
    /\ UNCHANGED <<pSent, pGot, pLate, pCloseRes, notPipe>>

\* forwardPackets, inner select, case dst <- incoming with dst the buffered
\* channel.
PipeOutSend(e) ==
    /\ pipe.out[e].pc = "send"
    /\ Len(pipe.buf[e]) < PipeBuffer
    /\ pipe' = [pipe EXCEPT !.buf[e] = Append(@, pipe.out[e].pkt),
                            !.out[e] = FwdIdle]
    /\ UNCHANGED <<pSent, pGot, pLate, pCloseRes, notPipe>>

\* forwardPackets, either select, case <-cancel.
PipeOutCancel(e) ==
    /\ pipe.out[e].pc \in {"recv", "send"}
    /\ pipe.done
    /\ pipe' = [pipe EXCEPT !.out[e].pc = "exit"]
    /\ UNCHANGED <<pSent, pGot, pLate, pCloseRes, notPipe>>

\* The forwarder of pipe_e.incoming receives from the buffered channel fed
\* by the other endpoint.
PipeIncTake(e) ==
    /\ pipe.inc[e].pc = "recv"
    /\ pipe.buf[Other(e)] # <<>>
    /\ pipe' = [pipe EXCEPT !.inc[e] = [pc |-> "poll",
                                        pkt |-> Head(pipe.buf[Other(e)])],
                            !.buf[Other(e)] = Tail(@)]
    /\ UNCHANGED <<pSent, pGot, pLate, pCloseRes, notPipe>>

\* The poll of done; on return the deferred close(dst) closes Incoming().
PipeIncPoll(e) ==
    /\ pipe.inc[e].pc = "poll"
    /\ pipe' = [pipe EXCEPT !.inc[e].pc = IF pipe.done THEN "exit" ELSE "send",
                            !.incClosed[e] = pipe.done]
    /\ UNCHANGED <<pSent, pGot, pLate, pCloseRes, notPipe>>

\* The inner select finds nothing ready (no receiver on Incoming(), done
\* open) and the forwarder parks on both channels.
PipeIncPark(e) ==
    /\ pipe.inc[e].pc = "send"
    /\ pipe.reader[e] = "idle"
    /\ ~pipe.done
    /\ pipe' = [pipe EXCEPT !.inc[e].pc = "parked"]
    /\ UNCHANGED <<pSent, pGot, pLate, pCloseRes, notPipe>>

\* A select takes case <-cancel: in the outer select, in the inner select
\* when it is entered with done closed, or when close(done) wakes the parked
\* forwarder.  The deferred close(dst) closes Incoming().
PipeIncCancel(e) ==
    /\ pipe.inc[e].pc \in {"recv", "send", "parked"}
    /\ pipe.done
    /\ pipe' = [pipe EXCEPT !.inc[e].pc = "exit", !.incClosed[e] = TRUE]
    /\ UNCHANGED <<pSent, pGot, pLate, pCloseRes, notPipe>>

\* A goroutine starts a receive on pipe_e.Incoming() and blocks: no sender
\* is parked on the channel (close(done) takes a parked forwarder off it).
PipeReadWait(e) ==
    /\ pipe.reader[e] = "idle"
    /\ ~pipe.incClosed[e]
    /\ ~(pipe.inc[e].pc = "parked" /\ ~pipe.done)
    /\ pipe' = [pipe EXCEPT !.reader[e] = "waiting"]
    /\ UNCHANGED <<pSent, pGot, pLate, pCloseRes, notPipe>>

\* A goroutine receives on pipe_e.Incoming() from the parked forwarder.
PipeRead(e) ==
    /\ pipe.reader[e] = "idle"
    /\ pipe.inc[e].pc = "parked"
    /\ ~pipe.done
    /\ pipe' = [pipe EXCEPT !.inc[e] = FwdIdle]
    /\ pGot' = [pGot EXCEPT ![e] = Append(@, pipe.inc[e].pkt)]
    /\ UNCHANGED <<pSent, pLate, pCloseRes, notPipe>>

\* The inner select is entered with a receiver blocked on Incoming() and
\* takes case dst <- incoming; when done is closed as well, the select
\* chooses between its two ready cases (this one and PipeIncCancel).
PipeIncSend(e) ==
    /\ pipe.inc[e].pc = "send"
    /\ pipe.reader[e] = "waiting"
    /\ pipe' = [pipe EXCEPT !.inc[e] = FwdIdle, !.reader[e] = "idle"]
    /\ pGot' = [pGot EXCEPT ![e] = Append(@, pipe.inc[e].pkt)]
    /\ pLate' = (pLate \/ pipe.done)
    /\ UNCHANGED <<pSent, pCloseRes, notPipe>>

\* The blocked receive on Incoming() returns because the channel was closed.
PipeReadClosed(e) ==
    /\ pipe.reader[e] = "waiting"
    /\ pipe.incClosed[e]
    /\ pipe' = [pipe EXCEPT !.reader[e] = "idle"]
    /\ UNCHANGED <<pSent, pGot, pLate, pCloseRes, notPipe>>

PipeNext ==
    \E e \in Endpoints :
        \/ PipeClose(e)
        \/ PipeWrite(e)
        \/ PipeOutPoll(e)
        \/ PipeOutSend(e)
        \/ PipeOutCancel(e)
        \/ PipeIncTake(e)
        \/ PipeIncPoll(e)
        \/ PipeIncPark(e)
        \/ PipeIncCancel(e)
        \/ PipeReadWait(e)
        \/ PipeRead(e)
        \/ PipeIncSend(e)
        \/ PipeReadClosed(e)

\* ------------------------------------------------------------------------
\* Filter (filters.go: Filter, filterChan)
\* ------------------------------------------------------------------------
\* Filter(s, incoming, outgoing) with both functions given.  s is a stream
\* whose Incoming() is a buffered channel, as that of a childStream: in is
\* its content, next the number of the next packet s receives.  gin and
\* gout are the goroutines filterChan(incoming, ch, s.Incoming(), true, ..)
\* and filterChan(outgoing, s.Outgoing(), ch, false, ..); writer is a
\* goroutine calling Send on the filtered stream.
NewFilter ==
    [done |-> FALSE, in |-> <<>>, inClosed |-> FALSE, next |-> 1,
     gin |-> FwdIdle, incClosed |-> FALSE,
     gout |-> FwdIdle, writer |-> "idle", sent |-> 0]

FilterInit ==
    /\ filt = NewFilter
    /\ fCalls = <<>>
    /\ fLate = FALSE
    /\ fGot = <<>>

\* The wrapped stream receives a packet and queues it on its Incoming().
FilterStreamDeliver ==
    /\ ~filt.done
    /\ filt.next <= MaxPackets
    /\ Len(filt.in) < FilterBuffer
    /\ filt' = [filt EXCEPT !.in = Append(@, filt.next), !.next = @ + 1]
    /\ UNCHANGED <<fCalls, fLate, fGot, notFilt>>

\* The wrapped stream is closed or disconnects: close(done) ...
FilterStreamDone ==
    /\ ~filt.done
    /\ filt' = [filt EXCEPT !.done = TRUE]
    /\ UNCHANGED <<fCalls, fLate, fGot, notFilt>>

\* ... followed by close(incoming).
FilterStreamCloseIncoming ==
    /\ filt.done
    /\ ~filt.inClosed
    /\ filt' = [filt EXCEPT !.inClosed = TRUE]
    /\ UNCHANGED <<fCalls, fLate, fGot, notFilt>>

\* filterChan, outer select, case packet, ok := <-src with ok true.  A
\* channel that was closed still yields the packets it buffers.
FilterInTake ==
    /\ filt.gin.pc = "recv"
    /\ filt.in # <<>>
    /\ filt' = [filt EXCEPT !.gin = [pc |-> "filter", pkt |-> Head(filt.in)],
                            !.in = Tail(@)]
    /\ UNCHANGED <<fCalls, fLate, fGot, notFilt>>

\* The receive from the closed and drained src: ok is false, return, and
\* the deferred close(dst) runs.
FilterInEOF ==
    /\ filt.gin.pc = "recv"
    /\ filt.in = <<>>
    /\ filt.inClosed
    /\ filt' = [filt EXCEPT !.gin.pc = "exit", !.incClosed = TRUE]
    /\ UNCHANGED <<fCalls, fLate, fGot, notFilt>>

\* packet = filter(packet); a nil result drops the packet.
FilterInApply(keep) ==
    /\ filt.gin.pc = "filter"
    /\ fCalls' = Append(fCalls, filt.gin.pkt)
    /\ fLate' = (fLate \/ filt.done)
    /\ filt' = [filt EXCEPT !.gin = IF keep THEN [@ EXCEPT !.pc = "send"]
                                             ELSE FwdIdle]
    /\ UNCHANGED <<fGot, notFilt>>

\* Inner select, case dst <- packet: a receiver takes the packet from the
\* filtered Incoming().
FilterInSend ==
    /\ filt.gin.pc = "send"
    /\ fGot' = Append(fGot, filt.gin.pkt)
    /\ filt' = [filt EXCEPT !.gin = FwdIdle]
    /\ UNCHANGED <<fCalls, fLate, notFilt>>

\* Either select, case <-done.
FilterInCancel ==
    /\ filt.gin.pc \in {"recv", "send"}
    /\ filt.done
    /\ filt' = [filt EXCEPT !.gin.pc = "exit", !.incClosed = TRUE]
    /\ UNCHANGED <<fCalls, fLate, fGot, notFilt>>

\* Send on the filtered stream: the first select, a poll of Done().
FilterSend ==
    /\ filt.writer = "idle"
    /\ filt.sent < MaxPackets
    /\ filt' = [filt EXCEPT !.writer = IF filt.done THEN "idle" ELSE "select",
                            !.sent = IF filt.done THEN @ ELSE @ + 1]
    /\ UNCHANGED <<fCalls, fLate, fGot, notFilt>>

\* Send's second select meets the outer select of filterChan on the
\* unbuffered channel ch.  Both selects have a case for Done(), so one of
\* the two goroutines is parked, which close(done) would have woken.
FilterOutTake ==
    /\ filt.writer = "select"
    /\ filt.gout.pc = "recv"
    /\ ~filt.done
    /\ filt' = [filt EXCEPT !.gout = [pc |-> "filter", pkt |-> filt.sent],
                            !.writer = "idle"]
    /\ UNCHANGED <<fCalls, fLate, fGot, notFilt>>

\* Send's second select takes case <-s.Done().
FilterSendReleased ==
    /\ filt.writer = "select"
    /\ filt.done
    /\ filt' = [filt EXCEPT !.writer = "idle"]
    /\ UNCHANGED <<fCalls, fLate, fGot, notFilt>>

FilterOutApply(keep) ==
    /\ filt.gout.pc = "filter"
    /\ fCalls' = Append(fCalls, filt.gout.pkt)
    /\ fLate' = (fLate \/ filt.done)
    /\ filt' = [filt EXCEPT !.gout = IF keep THEN [@ EXCEPT !.pc = "send"]
                                              ELSE FwdIdle]
    /\ UNCHANGED <<fGot, notFilt>>

\* Inner select, case dst <- packet with dst the Outgoing() of the wrapped
\* stream.
FilterOutSend ==
    /\ filt.gout.pc = "send"
    /\ ~filt.done
    /\ filt' = [filt EXCEPT !.gout = FwdIdle]
    /\ UNCHANGED <<fCalls, fLate, fGot, notFilt>>

FilterOutCancel ==
    /\ filt.gout.pc \in {"recv", "send"}
    /\ filt.done
    /\ filt' = [filt EXCEPT !.gout.pc = "exit"]
    /\ UNCHANGED <<fCalls, fLate, fGot, notFilt>>

FilterNext ==
    \/ FilterStreamDeliver
    \/ FilterStreamDone
    \/ FilterStreamCloseIncoming
    \/ FilterInTake
    \/ FilterInEOF
    \/ \E keep \in BOOLEAN : FilterInApply(keep)
    \/ FilterInSend
    \/ FilterInCancel
    \/ FilterSend
    \/ FilterOutTake
    \/ FilterSendReleased
    \/ \E keep \in BOOLEAN : FilterOutApply(keep)
    \/ FilterOutSend
    \/ FilterOutCancel

\* ------------------------------------------------------------------------
\* A child of a multiplexer over pipe1, nobody closing anything
\* (TestMultiplexerWritePressure)
\* ------------------------------------------------------------------------
\* The sends on child.Outgoing() that the writer attempts.
MaxPressureSends == PipeBuffer + 5

\* The sends on child.Outgoing() that completed: the packets the child's
\* forwarder passed on to pipe1.Outgoing() and the one it holds.
PressureCompleted ==
    pSent[1] + (IF kids[1].fwd \in {"hold", "send"} THEN 1 ELSE 0)

\* The writer sends the next packet on child.Outgoing().
PressureSend ==
    /\ PressureCompleted < MaxPressureSends
    /\ ChildSend(1, "blocked")

\* The child's forwarder, inner select, case dst <- incoming with dst the
\* Outgoing() of the stream under the multiplexer, which is pipe1.
PressureFwdForward ==
    /\ mux.panic = "none"
    /\ kids[1].fwd = "send"
    /\ PipeOutTake(1, pSent[1] + 1)
    /\ pSent' = [pSent EXCEPT ![1] = @ + 1]
    /\ kids' = [kids EXCEPT ![1].fwd = "recv"]
    /\ UNCHANGED <<ustream, mux, recvVars, sendVars, filtVars, fragVars,
                   hsVars, connVars, paVars,
                   lstVars, pGot, pLate, pCloseRes,
                   udpVars, ckVars, rdVars, dlVars, dupVars, tmVars, acVars>>

PressureNext ==
    \/ MuxFork(1, FloodReadBuffer)
    \/ PressureSend
    \/ ChildSendAccepted(1)
    \/ FwdCheck(1)
    \/ PressureFwdForward
    \/ PipeOutPoll(1)
    \/ PipeOutSend(1)
    \/ PipeIncTake(2)
    \/ PipeIncPoll(2)
    \/ PipeIncPark(2)
    \/ PipeReadWait(2)
    \/ PipeRead(2)
    \/ PipeIncSend(2)

\* The forwarders between child.Outgoing() and pipe2.Incoming() can all
\* take no step.
PressureForwardersBlocked ==
    /\ ~ENABLED FwdCheck(1)
    /\ ~ENABLED PressureFwdForward
    /\ ~ENABLED PipeOutPoll(1)
    /\ ~ENABLED PipeOutSend(1)
    /\ ~ENABLED PipeIncTake(2)
    /\ ~ENABLED PipeIncPoll(2)
    /\ ~ENABLED PipeIncPark(2)
    /\ ~ENABLED PipeIncSend(2)

\* ------------------------------------------------------------------------
\* IPv4 fragmentation and reassembly (ip.go: IPv4Packet; ip_frag.go)
\* ------------------------------------------------------------------------
\* An IPv4 packet is [hlen, tot, id, b6, b7, src, opt, ck, payload]: the
\* header length in bytes, the total length field, the identification,
\* bytes 6 and 7 (flags and fragment offset), the source address, the other
\* header bytes (TTL, protocol, destination, options), the header checksum
\* and the payload bytes.

\* Fragment offsets count blocks of 8 bytes.
BlockSize == 8

\* b & mask # 0 for a mask of one bit.
BitSet(b, mask) == (b \div mask) % 2 = 1

Words == 65536

\* InternetChecksum over the header with the checksum field zeroed, here
\* over the header fields of the model taken as 16-bit words.
HeaderSum(p) ==
    (Words - 1) - ((p.hlen + p.tot + p.id + p.b6 * 256 + p.b7 + p.src + p.opt)
                   % (Words - 1))

SetChecksum(p) == [p EXCEPT !.ck = HeaderSum(p)]

SetTotalLength(p) == [p EXCEPT !.tot = p.hlen + Len(p.payload)]

\* IPv4Packet.FragmentInfo.
FragmentInfo(p) ==
    [dontFrag |-> BitSet(p.b6, 128),
     moreFrags |-> BitSet(p.b6, 64),
     fragOffset |-> (p.b6 % 32) * 256 + p.b7]

\* IPv4Packet.SetFragmentInfo.
SetFragmentInfo(p, dontFrag, moreFrags, fragOffset) ==
    [p EXCEPT !.b6 = (IF dontFrag THEN 128 ELSE 0)
                     + (IF moreFrags THEN 64 ELSE 0)
                     + ((fragOffset \div 256) % 32),
              !.b7 = fragOffset % 256]

PacketLen(p) == p.hlen + Len(p.payload)

\* maxPayload := i.MTU - len(header); maxPayload ^= maxPayload & 7
MaxPayload(p, mtu) == (mtu - p.hlen) - ((mtu - p.hlen) % BlockSize)

\* The body of the loop of ipv4Fragmenter.Write: the fragment that starts
\* at byte offset of the payload.
Fragment(p, maxPayload, offset) ==
    LET chunkSize == Min(maxPayload, Len(p.payload) - offset)
        next == [p EXCEPT !.payload = SubSeq(p.payload, offset + 1,
                                             offset + chunkSize)]
    IN  SetChecksum(SetTotalLength(
            SetFragmentInfo(next, FALSE, chunkSize + offset < Len(p.payload),
                            offset \div BlockSize)))

\* The loop of ipv4Fragmenter.Write.
RECURSIVE Fragments(_, _, _)
Fragments(p, maxPayload, offset) ==
    IF Len(p.payload) - offset > 0
    THEN <<Fragment(p, maxPayload, offset)>>
         \o Fragments(p, maxPayload, offset + Min(maxPayload,
                                                  Len(p.payload) - offset))
    ELSE <<>>

\* ipv4Fragmenter.Write: the error it returns and the packets it writes.
FragmenterWrite(p, mtu) ==
    LET info == FragmentInfo(p) IN
    IF PacketLen(p) < mtu THEN [err |-> "nil", pkts |-> <<p>>]
    ELSE IF info.dontFrag
    THEN [err |-> "packet cannot be fragmented", pkts |-> <<>>]
    ELSE IF info.moreFrags \/ info.fragOffset # 0
    THEN [err |-> "packet is already fragmented", pkts |-> <<>>]
    ELSE IF MaxPayload(p, mtu) = 0
    THEN [err |-> "no room for payload", pkts |-> <<>>]
    ELSE IF MaxPayload(p, mtu) < 0
    THEN \* payload[offset:offset+chunkSize] with a negative chunkSize
         [err |-> "panic: slice bounds out of range", pkts |-> <<>>]
    ELSE [err |-> "nil", pkts |-> Fragments(p, MaxPayload(p, mtu), 0)]

\* sort.Search over the fragments: the first index whose offset is greater
\* than off, Len + 1 when there is none.
RECURSIVE SearchFrom(_, _, _)
SearchFrom(frags, off, idx) ==
    IF idx > Len(frags) THEN idx
    ELSE IF off < FragmentInfo(frags[idx]).fragOffset THEN idx
    ELSE SearchFrom(frags, off, idx + 1)

InsertAt(seq, idx, x) ==
    SubSeq(seq, 1, idx - 1) \o <<x>> \o SubSeq(seq, idx, Len(seq))

\* ipv4Reconstruction.AddFragment.
AddFragment(frags, p) ==
    LET off == FragmentInfo(p).fragOffset
        idx == SearchFrom(frags, off, 1)
    IN  IF idx = Len(frags) + 1 THEN Append(frags, p)
        ELSE IF FragmentInfo(frags[idx]).fragOffset = off THEN frags
        ELSE InsertAt(frags, idx, p)

\* The loop of Ready: the offsets continue one another from nextOff on.
RECURSIVE Contiguous(_, _, _)
Contiguous(frags, idx, nextOff) ==
    IF idx > Len(frags) THEN TRUE
    ELSE IF FragmentInfo(frags[idx]).fragOffset * BlockSize # nextOff THEN FALSE
    ELSE Contiguous(frags, idx + 1, nextOff + Len(frags[idx].payload))

\* ipv4Reconstruction.Ready.
Ready(frags) ==
    /\ ~FragmentInfo(frags[Len(frags)]).moreFrags
    /\ Contiguous(frags, 1, 0)

RECURSIVE Payloads(_, _)
Payloads(frags, idx) ==
    IF idx > Len(frags) THEN <<>>
    ELSE frags[idx].payload \o Payloads(frags, idx + 1)

\* ipv4Reconstruction.Reassemble.
Reassemble(frags) ==
    SetChecksum(SetTotalLength(
        SetFragmentInfo([frags[1] EXCEPT !.payload = Payloads(frags, 1)],
                        FALSE, FALSE, 0)))

\* essentials.OrderedDelete.
OrderedDelete(seq, j) == SubSeq(seq, 1, j - 1) \o SubSeq(seq, j + 1, Len(seq))

\* A faulty variant of dropOld, which drops nothing.
DropOldNever(rs, now) == rs

\* ipv4Defragmenter.dropOld at time now.
RECURSIVE DropOld(_, _)
DropOld(rs, now) ==
    IF rs = <<>> THEN <<>>
    ELSE IF now >= Head(rs).DropTime THEN DropOld(Tail(rs), now)
    ELSE <<Head(rs)>> \o DropOld(Tail(rs), now)

\* An entry matches on the identification alone.
MatchesIdOnly(recon, p) == recon.Identification = p.id

\* recon.Identification == p.Identification() && bytes.Equal(source, recon.Source)
Matches(recon, p) == recon.Identification = p.id /\ recon.Source = p.src

\* The loop of AddPacket: the index of the first matching entry, 0 if none.
RECURSIVE FindRecon(_, _, _)
FindRecon(rs, p, j) ==
    IF j > Len(rs) THEN 0
    ELSE IF Matches(rs[j], p) THEN j
    ELSE FindRecon(rs, p, j + 1)

NoPacket == [hlen |-> 0]

\* ipv4Defragmenter.AddPacket at time now: the new reconstructions and the
\* packet returned (NoPacket for nil).
AddPacket(rs0, p, now) ==
    LET rs == DropOld(rs0, now)
        j == FindRecon(rs, p, 1)
    IN  IF j = 0
        THEN [recons |-> Append(rs, [DropTime |-> now + DefragTimeout,
                                     Identification |-> p.id,
                                     Source |-> p.src,
                                     Fragments |-> <<p>>]),
              out |-> NoPacket]
        ELSE LET frags == AddFragment(rs[j].Fragments, p) IN
             IF Ready(frags)
             THEN [recons |-> OrderedDelete(rs, j), out |-> Reassemble(frags)]
             ELSE [recons |-> [rs EXCEPT ![j].Fragments = frags],
                   out |-> NoPacket]

\* The filter function of DefragmentIncomingIPv4.
DefragmentFilter(rs, p, now) ==
    LET info == FragmentInfo(p) IN
    IF info.moreFrags \/ info.fragOffset # 0
    THEN AddPacket(rs, p, now)
    ELSE [recons |-> rs, out |-> p]

\* The packets handed to the fragmenter.
HeaderLens == {20, 24}
FlagBytes == {0, 32, 64, 128}
OffsetBytes == {0, 1}
PayloadLens == {1, BlockSize, BlockSize + 1, 2 * BlockSize, MaxPayloadLen}
Mtus == {20, 27, 28, 29, 36, 44}

NewPacket(hlen, b6, b7, id, src, payload) ==
    SetChecksum(SetTotalLength(
        [hlen |-> hlen, tot |-> 0, id |-> id, b6 |-> b6, b7 |-> b7,
         src |-> src, opt |-> hlen, ck |-> 0, payload |-> payload]))

\* Packets of other senders or with other identifications, fragmented the
\* same way.
Foreign(k) ==
    NewPacket(20, 0, 0, IF k = 1 THEN 7 ELSE 8, IF k = 1 THEN 2 ELSE 1,
              [i \in 1..(2 * BlockSize) |-> 100 + i])

FragInit ==
    /\ \E hlen \in HeaderLens, b6 \in FlagBytes, b7 \in OffsetBytes,
          n \in PayloadLens, mtu \in Mtus :
          fragIn = [pkt |-> NewPacket(hlen, b6, b7, 7, 1, [i \in 1..n |-> i]),
                    mtu |-> mtu, written |-> FALSE, err |-> "none", count |-> 0,
                    foreign |-> 0]
    /\ wire = <<>>
    /\ clock = 0
    /\ recons = <<>>
    /\ dOut = <<>>
    /\ dLast = [pkt |-> NoPacket, out |-> NoPacket, touched |-> FALSE]
    /\ dFirst = -1
    /\ dTimely = TRUE

\* The application writes its packet to the fragmenter.
FragWrite ==
    /\ ~fragIn.written
    /\ LET res == FragmenterWrite(fragIn.pkt, fragIn.mtu) IN
        /\ fragIn' = [fragIn EXCEPT !.written = TRUE, !.err = res.err,
                                    !.count = Len(res.pkts)]
        /\ wire' = wire \o res.pkts
    /\ UNCHANGED <<clock, recons, dOut, dLast, dFirst, dTimely, notFrag>>

\* Another packet, of another sender or with another identification, is
\* fragmented and on its way too.
ForeignWrite(k) ==
    /\ fragIn.foreign = 0
    /\ fragIn' = [fragIn EXCEPT !.foreign = k]
    /\ wire' = wire \o FragmenterWrite(Foreign(k), 20 + BlockSize).pkts
    /\ UNCHANGED <<clock, recons, dOut, dLast, dFirst, dTimely, notFrag>>

IsOurs(p) == p.id = fragIn.pkt.id /\ p.src = fragIn.pkt.src

WireSlots == 1..(MaxPayloadLen \div BlockSize + 3)

\* A packet arrives, in any order, at the filter of DefragmentIncomingIPv4.
DefragIncoming(i) ==
    /\ i <= Len(wire)
    /\ LET p == wire[i]
           res == DefragmentFilter(recons, p, clock)
       IN  /\ recons' = res.recons
           /\ dOut' = IF res.out = NoPacket THEN dOut ELSE Append(dOut, res.out)
           /\ dLast' = [pkt |-> p, out |-> res.out,
                        touched |-> res.recons # recons]
           /\ dFirst' = IF IsOurs(p) /\ dFirst = -1 THEN clock ELSE dFirst
           /\ dTimely' = (dTimely /\ (IsOurs(p) /\ dFirst # -1
                                        => clock < dFirst + DefragTimeout))
    /\ wire' = OrderedDelete(wire, i)
    /\ UNCHANGED <<fragIn, clock, notFrag>>

\* Time passes.
Tick ==
    /\ clock < MaxClock
    /\ clock' = clock + 1
    /\ UNCHANGED <<fragIn, wire, recons, dOut, dLast, dFirst, dTimely, notFrag>>

FragNext ==
    \/ FragWrite
    \/ \E k \in {1, 2} : ForeignWrite(k)
    \/ \E i \in WireSlots : DefragIncoming(i)
    \/ Tick

\* ------------------------------------------------------------------------
\* TCP server handshake (tcp4ServerHandshake, tcp4Listener.loop)
\* ------------------------------------------------------------------------
tcpNumRetries == 10

\* The sequence numbers rand.Uint32() and the SYN may carry.
HsSeqs == {0, 1, SeqMod - 1}

\* The packets that reach the handshake: the ACK and SYN flags and the
\* acknowledgement number as an offset from localSeq.
HsPackets == [ack : BOOLEAN, syn : BOOLEAN, off : {0, 1, 2}]

AckNum(pkt, localSeq) == Mod(localSeq + pkt.off)

\* A test that forgets the SYN flag.
AcceptableIgnoringSyn(pkt, localSeq) ==
    pkt.ack /\ AckNum(pkt, localSeq) = Mod(localSeq + 1)

\* tp.Header().Flag(ACK) && !tp.Header().Flag(SYN) &&
\* tp.Header().AckNum() == localSeq+1
Acceptable(pkt, localSeq) ==
    pkt.ack /\ ~pkt.syn /\ AckNum(pkt, localSeq) = Mod(localSeq + 1)

NoHandshake == [localSeq |-> 0, remoteSeq |-> 0]

NoConn == [recv |-> 0, send |-> 0, made |-> FALSE]

\* syn is the SeqNum() of the SYN; synAck the packet built from it; i the
\* loop counter; timer the channel of time.After (none, running, fired);
\* offers and elapsed count the non-blocking sends and the timeouts taken;
\* pkt is the packet the handshake succeeded on.
HsInit ==
    /\ \E localSeq \in HsSeqs, syn \in HsSeqs :
          hs = [pc |-> "poll", i |-> 0, localSeq |-> localSeq, syn |-> syn,
                synAck |-> [seq |-> localSeq, ack |-> Mod(syn + 1)],
                timer |-> "none", offers |-> 0, elapsed |-> 0,
                pkt |-> [ack |-> FALSE, syn |-> FALSE, off |-> 0],
                err |-> "none", res |-> NoHandshake, conn |-> NoConn]
    /\ hstream = [inc |-> <<>>, incClosed |-> FALSE, done |-> FALSE]

\* A loop counter that does not advance.
NextRetryStuck(i) == i

\* i++ of the retry loop.
NextRetry(i) == i + 1

\* The loop test and the poll of stream.Done().
HsPoll ==
    /\ hs.pc = "poll"
    /\ hs' = IF hs.i >= tcpNumRetries
             THEN [hs EXCEPT !.pc = "done", !.err = "connection failed"]
             ELSE IF hstream.done
             THEN [hs EXCEPT !.pc = "done", !.err = "stream closed"]
             ELSE [hs EXCEPT !.pc = "offer"]
    /\ UNCHANGED <<hstream, notHs>>

\* The non-blocking send of the SYN+ACK (taken or dropped by the stream)
\* and timeout := time.After(time.Second).
HsOffer ==
    /\ hs.pc = "offer"
    /\ hs' = [hs EXCEPT !.pc = "wait", !.offers = @ + 1, !.timer = "running"]
    /\ UNCHANGED <<hstream, notHs>>

\* A second has passed.
HsTimerFires ==
    /\ hs.timer = "running"
    /\ hs' = [hs EXCEPT !.timer = "fired"]
    /\ UNCHANGED <<hstream, notHs>>

\* case <-timeout: continue OuterLoop
HsTimeout ==
    /\ hs.pc = "wait"
    /\ hs.timer = "fired"
    /\ hs' = [hs EXCEPT !.pc = "poll", !.i = NextRetry(@), !.timer = "none",
                        !.elapsed = @ + 1]
    /\ UNCHANGED <<hstream, notHs>>

\* case packet := <-stream.Incoming() with a packet.
HsRecv ==
    /\ hs.pc = "wait"
    /\ hstream.inc # <<>>
    /\ hstream' = [hstream EXCEPT !.inc = Tail(@)]
    /\ LET pkt == Head(hstream.inc) IN
       hs' = IF Acceptable(pkt, hs.localSeq)
             THEN [hs EXCEPT !.pc = "done", !.err = "nil", !.pkt = pkt,
                             !.res = [localSeq |-> Mod(hs.localSeq + 1),
                                      remoteSeq |-> Mod(hs.syn + 1)]]
             ELSE hs
    /\ UNCHANGED notHs

\* case packet := <-stream.Incoming() on the closed channel: packet == nil.
HsRecvClosed ==
    /\ hs.pc = "wait"
    /\ hstream.inc = <<>>
    /\ hstream.incClosed
    /\ hs' = [hs EXCEPT !.pc = "done", !.err = "stream closed"]
    /\ UNCHANGED <<hstream, notHs>>

\* tcp4Listener.loop builds the connection from the handshake.
HsMakeConn ==
    /\ hs.pc = "done"
    /\ hs.err = "nil"
    /\ ~hs.conn.made
    /\ hs' = [hs EXCEPT !.conn = [recv |-> hs.res.remoteSeq,
                                  send |-> hs.res.localSeq, made |-> TRUE]]
    /\ UNCHANGED <<hstream, notHs>>

\* A packet from the remote reaches Incoming().
HsDeliver(pkt) ==
    /\ ~hstream.done
    /\ hstream.inc = <<>>
    /\ hs.pc # "done"
    /\ hstream' = [hstream EXCEPT !.inc = <<pkt>>]
    /\ UNCHANGED <<hs, notHs>>

\* The stream closes: close(done), then close(incoming).
HsStreamDone ==
    /\ ~hstream.done
    /\ hstream' = [hstream EXCEPT !.done = TRUE]
    /\ UNCHANGED <<hs, notHs>>

HsStreamCloseIncoming ==
    /\ hstream.done
    /\ ~hstream.incClosed
    /\ hstream' = [hstream EXCEPT !.incClosed = TRUE]
    /\ UNCHANGED <<hs, notHs>>

HsNext ==
    \/ HsPoll
    \/ HsOffer
    \/ HsTimerFires
    \/ HsTimeout
    \/ HsRecv
    \/ HsRecvClosed
    \/ HsMakeConn
    \/ \E pkt \in HsPackets : HsDeliver(pkt)
    \/ HsStreamDone
    \/ HsStreamCloseIncoming

\* The handshake goroutine keeps running, time passes, and a select whose
\* timeout case is ready takes it in the end.
HsFairness ==
    /\ WF_vars(HsPoll)
    /\ WF_vars(HsOffer)
    /\ WF_vars(HsTimerFires)
    /\ WF_vars(HsTimeout)

\* ------------------------------------------------------------------------
\* Established TCP connection (net_tcp.go: tcp4Conn)
\* ------------------------------------------------------------------------
\* The receiver and the sender of the connection are kept as what the loop
\* sees of them: recv.Done(), send.Done(), whether send.Next() and
\* recv.WindowOpen() have something to receive, and whether a Read or a
\* Write (or Close) of the application is blocked inside them.  acks counts
\* the packets the loop offered to the stream.
ConnPackets == [data : BOOLEAN, fin : BOOLEAN, ack : BOOLEAN]

NewConn ==
    [pc |-> "test", sendDone |-> FALSE, recvDone |-> FALSE, closing |-> FALSE,
     next |-> FALSE, windowOpen |-> FALSE, reader |-> "idle",
     writer |-> "idle", acks |-> 0]

ConnInit ==
    /\ conn = NewConn
    /\ cstream = [inc |-> <<>>, incClosed |-> FALSE, done |-> FALSE]

ConnRunning == conn.pc \in {"test", "select"}

\* for !t.send.Done() || !t.recv.Done(); on exit the deferred
\* t.stream.Close() runs.
ConnLoopTest ==
    /\ conn.pc = "test"
    /\ IF conn.sendDone /\ conn.recvDone
       THEN /\ conn' = [conn EXCEPT !.pc = "exit"]
            /\ cstream' = [cstream EXCEPT !.done = TRUE]
       ELSE /\ conn' = [conn EXCEPT !.pc = "select"]
            /\ UNCHANGED cstream
    /\ UNCHANGED notConn

\* case outgoing := <-t.send.Next(): sendSegment offers it to the stream.
ConnLoopNext ==
    /\ conn.pc = "select"
    /\ conn.next
    /\ conn' = [conn EXCEPT !.pc = "test", !.next = FALSE,
                            !.acks = (@ + 1) % 2]
    /\ UNCHANGED <<cstream, notConn>>

\* case <-t.recv.WindowOpen(): sendAck.
ConnLoopWindowOpen ==
    /\ conn.pc = "select"
    /\ conn.windowOpen
    /\ conn' = [conn EXCEPT !.pc = "test", !.windowOpen = FALSE,
                            !.acks = (@ + 1) % 2]
    /\ UNCHANGED <<cstream, notConn>>

\* case packet := <-t.stream.Incoming() with a packet: recv.Handle hands
\* data or the end of the stream to a blocked Read, send.Handle releases a
\* blocked Write or Close when the packet acknowledges what is pending.
ConnLoopIncoming ==
    /\ conn.pc = "select"
    /\ cstream.inc # <<>>
    /\ cstream' = [cstream EXCEPT !.inc = Tail(@)]
    /\ LET pkt == Head(cstream.inc) IN
       conn' = [conn EXCEPT
           !.pc = "test",
           !.recvDone = @ \/ pkt.fin,
           !.reader = IF @ = "blocked" /\ (pkt.data \/ pkt.fin)
                      THEN "returned" ELSE @,
           !.sendDone = @ \/ (conn.closing /\ pkt.ack),
           !.writer = IF @ = "blocked" /\ pkt.ack THEN "returned" ELSE @,
           !.next = @ /\ ~pkt.ack,
           !.acks = (@ + 1) % 2]
    /\ UNCHANGED notConn

\* case packet := <-t.stream.Incoming() on the closed channel: packet is
\* nil and tp.Header() indexes it.
ConnLoopIncomingClosed ==
    /\ conn.pc = "select"
    /\ cstream.inc = <<>>
    /\ cstream.incClosed
    /\ conn' = [conn EXCEPT !.pc = "panic"]
    /\ UNCHANGED <<cstream, notConn>>

\* Read finds the delivery buffer empty and blocks.
ConnRead ==
    /\ ConnRunning
    /\ conn.reader \in {"idle", "returned"}
    /\ ~conn.recvDone
    /\ conn' = [conn EXCEPT !.reader = "blocked",
                            !.windowOpen = @ \/ conn.reader = "returned"]
    /\ UNCHANGED <<cstream, notConn>>

\* Write deposits its data and blocks until it is acknowledged.
ConnWrite ==
    /\ ConnRunning
    /\ conn.writer \in {"idle", "returned"}
    /\ ~conn.closing
    /\ conn' = [conn EXCEPT !.writer = "blocked", !.next = TRUE]
    /\ UNCHANGED <<cstream, notConn>>

\* Close deposits the end of the stream and blocks until it is acknowledged.
ConnClose ==
    /\ ConnRunning
    /\ conn.writer \in {"idle", "returned"}
    /\ ~conn.closing
    /\ conn' = [conn EXCEPT !.writer = "blocked", !.next = TRUE,
                            !.closing = TRUE]
    /\ UNCHANGED <<cstream, notConn>>

\* A packet of the remote reaches Incoming().
ConnDeliver(pkt) ==
    /\ ConnRunning
    /\ ~cstream.done
    /\ cstream.inc = <<>>
    /\ cstream' = [cstream EXCEPT !.inc = <<pkt>>]
    /\ UNCHANGED <<conn, notConn>>

\* The stream under the connection closes (listener or net closed, parent
\* disconnected): close(done), then close(incoming).
ConnStreamDone ==
    /\ ~cstream.done
    /\ cstream' = [cstream EXCEPT !.done = TRUE]
    /\ UNCHANGED <<conn, notConn>>

ConnStreamCloseIncoming ==
    /\ cstream.done
    /\ ~cstream.incClosed
    /\ cstream' = [cstream EXCEPT !.incClosed = TRUE]
    /\ UNCHANGED <<conn, notConn>>

ConnNext ==
    \/ ConnLoopTest
    \/ ConnLoopNext
    \/ ConnLoopWindowOpen
    \/ ConnLoopIncoming
    \/ ConnLoopIncomingClosed
    \/ ConnRead
    \/ ConnWrite
    \/ ConnClose
    \/ \E pkt \in ConnPackets : ConnDeliver(pkt)
    \/ ConnStreamDone
    \/ ConnStreamCloseIncoming

\* ------------------------------------------------------------------------
\* Basic port allocator (basicPortAllocator)
\* ------------------------------------------------------------------------
\* Every method takes b.Lock after its range check and releases it on
\* return.  A call is: the call itself (range check), taking the lock, the
\* test of the table, and the write of the table with the return.
Callers == {1, 2}
PortInputs == -1 .. NumPorts
PortInRange(port) == ~(port < 0 \/ port >= NumPorts)

IdleCall == [pc |-> "idle", op |-> "none", port |-> 0, err |-> "none", ret |-> 0]

PaInit ==
    /\ ports = [Used |-> [i \in 0 .. NumPorts - 1 |-> FALSE], holder |-> 0]
    /\ pcall = [c \in Callers |-> IdleCall]
    /\ paHeld = [i \in 0 .. NumPorts - 1 |-> 0]

HighestFreeOfEmptyTable(Used) ==
    IF \E i \in DOMAIN Used : Used[i] THEN -1
    ELSE CHOOSE i \in DOMAIN Used : \A j \in DOMAIN Used : j <= i

\* for i := 0xffff; i >= 0; i-- { if !b.Used[i] ... }: the highest free
\* port, -1 if there is none.
HighestFree(Used) ==
    IF \A i \in DOMAIN Used : Used[i] THEN -1
    ELSE CHOOSE i \in DOMAIN Used :
             ~Used[i] /\ \A j \in DOMAIN Used : j > i => Used[j]

AllocOps == {"AllocAny", "AllocRemote", "Alloc"}

PaEnter(c, op, port) ==
    /\ pcall[c].pc = "idle"
    /\ pcall' = [pcall EXCEPT ![c] =
           [pc |-> "want", op |-> op, port |-> port, err |-> "none", ret |-> 0]]
    /\ UNCHANGED <<ports, paHeld, notPa>>

PaOutOfRange(c, op, port, err) ==
    /\ pcall[c].pc = "idle"
    /\ pcall' = [pcall EXCEPT ![c] =
           [pc |-> "idle", op |-> op, port |-> port, err |-> err, ret |-> 0]]
    /\ UNCHANGED <<ports, paHeld, notPa>>

AllocAnyCall(c) ==
    /\ pcall[c].pc = "idle"
    /\ pcall' = [pcall EXCEPT ![c] = [IdleCall EXCEPT !.pc = "want", !.op = "AllocAny"]]
    /\ UNCHANGED <<ports, paHeld, notPa>>

\* AllocRemote returns b.AllocAny().
AllocRemoteCall(c) ==
    /\ pcall[c].pc = "idle"
    /\ pcall' = [pcall EXCEPT ![c] = [IdleCall EXCEPT !.pc = "want", !.op = "AllocRemote"]]
    /\ UNCHANGED <<ports, paHeld, notPa>>

AllocCall(c, port) ==
    IF PortInRange(port) THEN PaEnter(c, "Alloc", port)
    ELSE PaOutOfRange(c, "Alloc", port, "alloc port: port out of range")

FreeCall(c, port) ==
    IF PortInRange(port) THEN PaEnter(c, "Free", port)
    ELSE PaOutOfRange(c, "Free", port, "free port: port out of range")

\* FreeRemote returns b.Free(port).
FreeRemoteCall(c, port) ==
    IF PortInRange(port) THEN PaEnter(c, "FreeRemote", port)
    ELSE PaOutOfRange(c, "FreeRemote", port, "free port: port out of range")

PaLockUnguarded(c) ==
    /\ pcall[c].pc = "want"
    /\ ports' = [ports EXCEPT !.holder = c]
    /\ pcall' = [pcall EXCEPT ![c].pc = "locked"]
    /\ UNCHANGED <<paHeld, notPa>>

\* b.Lock.Lock()
PaLock(c) ==
    /\ pcall[c].pc = "want"
    /\ ports.holder = 0
    /\ ports' = [ports EXCEPT !.holder = c]
    /\ pcall' = [pcall EXCEPT ![c].pc = "locked"]
    /\ UNCHANGED <<paHeld, notPa>>

\* The test of b.Used made with the lock held; a failing call returns here
\* (and the deferred Unlock runs).
PaTest(c) ==
    /\ pcall[c].pc = "locked"
    /\ LET call == pcall[c]
           any == call.op \in {"AllocAny", "AllocRemote"}
           port == IF any THEN HighestFree(ports.Used) ELSE call.port
           ok == IF any THEN port >= 0
                 ELSE IF call.op = "Alloc" THEN ~ports.Used[port]
                 ELSE ports.Used[port]
           err == IF any THEN "alloc port: no free ports"
                  ELSE IF call.op = "Alloc" THEN "alloc port: port in use"
                  ELSE "free port: port is not in use"
       IN IF ok
          THEN /\ pcall' = [pcall EXCEPT ![c].pc = "set", ![c].port = port]
               /\ UNCHANGED ports
          ELSE /\ pcall' = [pcall EXCEPT ![c].pc = "idle", ![c].err = err]
               /\ ports' = [ports EXCEPT !.holder = 0]
    /\ UNCHANGED <<paHeld, notPa>>

\* b.Used[i] = true / false; return; deferred b.Lock.Unlock().
PaSet(c) ==
    /\ pcall[c].pc = "set"
    /\ LET call == pcall[c]
           alloc == call.op \in AllocOps
       IN /\ ports' = [Used |-> [ports.Used EXCEPT ![call.port] = alloc],
                       holder |-> 0]
          /\ pcall' = [pcall EXCEPT ![c].pc = "idle", ![c].ret = call.port]
          /\ paHeld' = [paHeld EXCEPT ![call.port] =
                 IF alloc THEN IF @ < 2 THEN @ + 1 ELSE @ ELSE 0]
    /\ UNCHANGED notPa

PaNext ==
    \E c \in Callers :
        \/ AllocAnyCall(c)
        \/ AllocRemoteCall(c)
        \/ \E port \in PortInputs : AllocCall(c, port)
        \/ \E port \in PortInputs : FreeCall(c, port)
        \/ \E port \in PortInputs : FreeRemoteCall(c, port)
        \/ PaLock(c)
        \/ PaTest(c)
        \/ PaSet(c)

\* ------------------------------------------------------------------------
\* TCP net and listeners (net_tcp.go: tcp4Net, tcp4Listener)
\* ------------------------------------------------------------------------
\* The multiplexer of the net and the multiplexer of each listener are kept
\* as their closeChan; under is the child stream the listener forked from
\* the net, on which its own multiplexer runs.  holds records that the
\* port allocated by ListenTCP has not been freed by the listener.
Listeners == {1, 2}

NoListener ==
    [st |-> "none", port |-> 0, under |-> "none", muxClosed |-> FALSE,
     rl |-> "none", conns |-> "none", pc |-> "idle", closeRes |-> "none",
     holds |-> FALSE]

LstInit ==
    /\ lnet = [closed |-> FALSE, cause |-> "none"]
    /\ lst = [l \in Listeners |-> NoListener]

\* ListenTCP: Fork(16) on the net, t.ports.Alloc(addr.Port),
\* Multiplex(stream), go res.loop().
ListenTCP(l, port) ==
    /\ lst[l].st = "none"
    /\ ports.holder = 0
    /\ IF lnet.closed
       THEN /\ lst' = [lst EXCEPT ![l].st = "failed: closed pipe"]
            /\ UNCHANGED <<ports, paHeld>>
       ELSE IF ~PortInRange(port) \/ ports.Used[port]
       THEN /\ lst' = [lst EXCEPT ![l].st = "failed: alloc port",
                                  ![l].under = "open"]
            /\ UNCHANGED <<ports, paHeld>>
       ELSE /\ lst' = [lst EXCEPT ![l] =
                   [NoListener EXCEPT !.st = "open", !.port = port,
                                      !.under = "open", !.rl = "run",
                                      !.conns = "open", !.holds = TRUE]]
            /\ ports' = [ports EXCEPT !.Used[port] = TRUE]
            /\ paHeld' = [paHeld EXCEPT ![port] = IF @ < 2 THEN @ + 1 ELSE @]
    /\ UNCHANGED <<lnet, notLst>>

\* multiplexer.Close of the net's multiplexer: closes closeChan and every
\* child, i.e. the stream under every listener.
CloseNetMux(cause) ==
    /\ lnet' = [closed |-> TRUE, cause |-> cause]
    /\ lst' = [l \in Listeners |->
                  IF lst[l].under = "open"
                  THEN [lst[l] EXCEPT !.under = "closed"] ELSE lst[l]]
    /\ UNCHANGED <<ports, paHeld, notLst>>

\* tcp4Net.Close
NetClose ==
    /\ ~lnet.closed
    /\ CloseNetMux("Close")

\* The stream under the net disconnects: readLoop of the net's multiplexer
\* returns and its deferred Close runs.
NetDisconnect ==
    /\ ~lnet.closed
    /\ CloseNetMux("disconnect")

\* readLoop of the listener's multiplexer: case <-m.stream.Done() or
\* case <-m.closeChan, return, deferred m.Close().
LstReadLoopExit(l) ==
    /\ lst[l].rl = "run"
    /\ lst[l].under = "closed" \/ lst[l].muxClosed
    /\ lst' = [lst EXCEPT ![l].rl = "exit", ![l].muxClosed = TRUE,
                          ![l].under = "closed"]
    /\ UNCHANGED <<lnet, ports, paHeld, notLst>>

\* tcp4Listener.loop: the range over the Incoming() of its fork ends when
\* the listener's multiplexer is closed; deferred close(t.conns).
LstLoopExit(l) ==
    /\ lst[l].conns = "open"
    /\ lst[l].muxClosed
    /\ lst' = [lst EXCEPT ![l].conns = "closed"]
    /\ UNCHANGED <<lnet, ports, paHeld, notLst>>

\* tcp4Listener.Close: t.stream.Close(); an error is returned as it is.
LstClose(l) ==
    /\ lst[l].st = "open"
    /\ lst[l].pc = "idle"
    /\ IF lst[l].muxClosed
       THEN lst' = [lst EXCEPT ![l].closeRes = "close: stream is closed"]
       ELSE lst' = [lst EXCEPT ![l].muxClosed = TRUE, ![l].under = "closed",
                               ![l].pc = "free"]
    /\ UNCHANGED <<lnet, ports, paHeld, notLst>>

\* tcp4Listener.Close: return t.ports.Free(t.addr.Port).
LstCloseFree(l) ==
    /\ lst[l].pc = "free"
    /\ ports.holder = 0
    /\ LET port == lst[l].port IN
       IF ports.Used[port]
       THEN /\ ports' = [ports EXCEPT !.Used[port] = FALSE]
            /\ paHeld' = [paHeld EXCEPT ![port] = 0]
            /\ lst' = [lst EXCEPT ![l].pc = "idle", ![l].closeRes = "nil",
                                  ![l].holds = FALSE]
       ELSE /\ lst' = [lst EXCEPT ![l].pc = "idle",
                           ![l].closeRes = "free port: port is not in use"]
            /\ UNCHANGED <<ports, paHeld>>
    /\ UNCHANGED <<lnet, notLst>>

LstNext ==
    \/ \E l \in Listeners : \E port \in PortInputs : ListenTCP(l, port)
    \/ NetClose
    \/ NetDisconnect
    \/ \E l \in Listeners : LstReadLoopExit(l)
    \/ \E l \in Listeners : LstLoopExit(l)
    \/ \E l \in Listeners : LstClose(l)
    \/ \E l \in Listeners : LstCloseFree(l)

\* ------------------------------------------------------------------------
\* UDP net and sockets (udp4Net.DialUDP, udp4Net.ListenUDP)
\* ------------------------------------------------------------------------
\* A socket is the child stream forked for it (done: its Done() is closed),
\* its local port, whether that port came from the allocator (alloc), the
\* goroutine started to free it (freer) and the number of times that
\* goroutine's Free or FreeRemote succeeded (frees).
Socks == {1, 2}
LocalAddrs == {-1} \cup (0 .. NumPorts - 1)   \* -1: laddr == nil

NoSock ==
    [st |-> "none", kind |-> "none", port |-> 0, alloc |-> FALSE,
     done |-> FALSE, freer |-> "none", frees |-> 0]

UdpInit ==
    /\ unet = [closed |-> FALSE]
    /\ usock = [k \in Socks |-> NoSock]

\* DialUDP and ListenUDP: Fork, then for laddr == nil a port from
\* AllocRemote / AllocAny and the goroutine that frees it on Done(); a given
\* laddr is used as it is.  ipOk: laddr.IP is the net's address (or
\* unspecified, for ListenUDP).
UdpOpen(k, kind, laddr, ipOk) ==
    /\ usock[k].st = "none"
    /\ ports.holder = 0
    /\ laddr = -1 => ipOk
    /\ LET port == IF laddr = -1 THEN HighestFree(ports.Used) ELSE laddr IN
       IF unet.closed
       THEN /\ usock' = [usock EXCEPT ![k].st = "failed: stream closed",
                                      ![k].kind = kind]
            /\ UNCHANGED <<ports, paHeld>>
       ELSE IF port = -1
       THEN /\ usock' = [usock EXCEPT ![k].st = "failed: no free ports",
                                      ![k].kind = kind, ![k].done = TRUE]
            /\ UNCHANGED <<ports, paHeld>>
       ELSE IF ~ipOk
       THEN /\ usock' = [usock EXCEPT ![k].st = "failed: cannot listen",
                                      ![k].kind = kind, ![k].done = TRUE]
            /\ UNCHANGED <<ports, paHeld>>
       ELSE /\ usock' = [usock EXCEPT ![k] =
                   [NoSock EXCEPT !.st = "open", !.kind = kind, !.port = port,
                                  !.alloc = (laddr = -1),
                                  !.freer = IF laddr = -1 THEN "waiting"
                                            ELSE "none"]]
            /\ IF laddr = -1
               THEN /\ ports' = [ports EXCEPT !.Used[port] = TRUE]
                    /\ paHeld' = [paHeld EXCEPT ![port] =
                                      IF @ < 2 THEN @ + 1 ELSE @]
               ELSE UNCHANGED <<ports, paHeld>>
    /\ UNCHANGED <<unet, notUdp>>

DialUDP(k, laddr, ipOk) ==
    /\ usock[k].kind = "none"
    /\ UdpOpen(k, "dial", laddr, ipOk)

ListenUDP(k, laddr, ipOk) ==
    /\ usock[k].kind = "none"
    /\ UdpOpen(k, "listen", laddr, ipOk)

\* streamConn.Close: s.stream.Close(), which closes the child's Done().
UdpSockClose(k) ==
    /\ usock[k].st = "open"
    /\ ~usock[k].done
    /\ usock' = [usock EXCEPT ![k].done = TRUE]
    /\ UNCHANGED <<unet, ports, paHeld, notUdp>>

\* udp4Net.Close, or the stream under the net disconnecting: the net's
\* multiplexer closes every child.
UdpNetClose ==
    /\ ~unet.closed
    /\ unet' = [closed |-> TRUE]
    /\ usock' = [k \in Socks |->
                    IF usock[k].st = "open"
                    THEN [usock[k] EXCEPT !.done = TRUE] ELSE usock[k]]
    /\ UNCHANGED <<ports, paHeld, notUdp>>

UdpFreerEarly(k) ==
    /\ usock[k].freer = "waiting"
    /\ ports.holder = 0
    /\ LET port == usock[k].port IN
       IF ports.Used[port]
       THEN /\ ports' = [ports EXCEPT !.Used[port] = FALSE]
            /\ paHeld' = [paHeld EXCEPT ![port] = 0]
            /\ usock' = [usock EXCEPT ![k].freer = "done",
                                      ![k].frees = @ + 1]
       ELSE /\ usock' = [usock EXCEPT ![k].freer = "done"]
            /\ UNCHANGED <<ports, paHeld>>
    /\ UNCHANGED <<unet, notUdp>>

\* go func() { <-stream.Done(); u.ports.Free(laddr.Port) }()
UdpFreer(k) ==
    /\ usock[k].done
    /\ UdpFreerEarly(k)

UdpNext ==
    \/ \E k \in Socks : \E laddr \in LocalAddrs : \E ipOk \in BOOLEAN :
           DialUDP(k, laddr, ipOk)
    \/ \E k \in Socks : \E laddr \in LocalAddrs : \E ipOk \in BOOLEAN :
           ListenUDP(k, laddr, ipOk)
    \/ \E k \in Socks : UdpSockClose(k)
    \/ UdpNetClose
    \/ \E k \in Socks : UdpFreer(k)

\* The goroutine that frees a port runs once Done() is closed.
UdpFairness == \A k \in Socks : WF_vars(UdpFreer(k))

\* ------------------------------------------------------------------------
\* UDP packets and their checksum (checksum.go, UDP4Packet)
\* ------------------------------------------------------------------------
\* Sequences of bytes; addresses are 4 bytes.
RECURSIVE WordSum(_)
WordSum(data) ==
    IF Len(data) >= 2
    THEN data[1] * 256 + data[2] + WordSum(SubSeq(data, 3, Len(data)))
    ELSE IF Len(data) = 1 THEN data[1] * 256 ELSE 0

RECURSIVE FoldCarries(_)
FoldCarries(sum) ==
    IF sum \div Words # 0
    THEN FoldCarries((sum % Words) + (sum \div Words))
    ELSE sum

\* InternetChecksum: ^uint16(sum).  sum is a uint32; the words of a packet
\* of at most 65535 bytes add up to less than 2^31, so it does not wrap.
InternetChecksum(data) == (Words - 1) - FoldCarries(WordSum(data))

ProtocolNumberUDP == 17

\* UDPHeader.setField(i, val) on the bytes of the UDP header and payload.
SetField(udp, i, val) ==
    [udp EXCEPT ![2 * i + 1] = (val \div 256) % 256, ![2 * i + 2] = val % 256]

PseudoPacketSrcDst(p) ==
    p.src \o p.dst \o <<0, ProtocolNumberUDP>>
    \o <<(Len(p.udp) \div 256) % 256, Len(p.udp) % 256>> \o p.udp

\* The pseudoPacket of UDP4Packet.Checksum: both copies take SourceAddr().
PseudoPacket(p) ==
    p.src \o p.src \o <<0, ProtocolNumberUDP>>
    \o <<(Len(p.udp) \div 256) % 256, Len(p.udp) % 256>> \o p.udp

\* UDP4Packet.Checksum
UdpChecksum(p) == InternetChecksum(PseudoPacket(p))

\* UDP4Packet.SetChecksum
UdpSetChecksum(p) ==
    LET zeroed == [p EXCEPT !.udp = SetField(p.udp, 3, 0)]
        sum == UdpChecksum(zeroed)
    IN  [p EXCEPT !.udp = SetField(p.udp, 3, IF sum = 0 THEN Words - 1 ELSE sum)]

\* NewUDP4Packet
NewUDP4Packet(p) ==
    LET hdr == SetField(SetField(SetField(<<0, 0, 0, 0, 0, 0, 0, 0>>,
                   0, p.sport), 1, p.dport), 2, 8 + Len(p.payload))
    IN  UdpSetChecksum([p EXCEPT !.udp = hdr \o p.payload])

UdpAddrs == {<<10, 0, 0, 1>>, <<10, 0, 0, 2>>, <<192, 168, 255, 1>>}
UdpPortArgs == {0, 53, 65535}
UdpBytes == {0, 1, 255}
UdpPayloads ==
    UNION {[1 .. n -> UdpBytes] : n \in 0 .. MaxUdpPayload}

NoUdpPacket ==
    [src |-> <<0, 0, 0, 0>>, dst |-> <<0, 0, 0, 0>>, sport |-> 0, dport |-> 0,
     payload |-> <<>>, udp |-> <<>>, sum |-> -1, stage |-> "none"]

CkIdle == upkt = NoUdpPacket

CkInit ==
    \E src \in UdpAddrs, dst \in UdpAddrs, sport \in UdpPortArgs,
       dport \in UdpPortArgs, payload \in UdpPayloads :
        upkt = [NoUdpPacket EXCEPT !.src = src, !.dst = dst, !.sport = sport,
                                   !.dport = dport, !.payload = payload,
                                   !.stage = "args"]

CkBuild ==
    /\ upkt.stage = "args"
    /\ upkt' = [NewUDP4Packet(upkt) EXCEPT !.stage = "built"]
    /\ UNCHANGED notCk

\* The packet is damaged on the way: one byte of the UDP payload changes.
CkDamage ==
    /\ upkt.stage = "built"
    /\ Len(upkt.udp) > 8
    /\ upkt' = [upkt EXCEPT !.udp[9] = (@ + 1) % 256, !.stage = "damaged"]
    /\ UNCHANGED notCk

\* The filter of NewUDP4Net: pack.Checksum().
CkVerify ==
    /\ upkt.stage \in {"built", "damaged"}
    /\ upkt.sum = -1
    /\ upkt' = [upkt EXCEPT !.sum = UdpChecksum(upkt)]
    /\ UNCHANGED notCk

CkNext ==
    \/ CkBuild
    \/ CkDamage
    \/ CkVerify

\* ------------------------------------------------------------------------
\* simpleTcpRecv.Read as the steps of the goroutines that call it
\* ------------------------------------------------------------------------
Readers == {1}

NoRead == [pc |-> "idle", len |-> 0, open |-> FALSE, res |-> "none"]

RdIdle ==
    /\ rdr = [r \in Readers |-> NoRead]
    /\ rDeadline = FALSE

\* Read returns err to its caller.
RdReturn(r, err) == [rdr EXCEPT ![r] = [NoRead EXCEPT !.res = err]]

\* The first statement of Read: the poll of the deadline channel. It is
\* run by a call of Read and again by the call Read makes of itself after
\* it was woken.
RdPoll(r, len) ==
    IF rDeadline THEN RdReturn(r, "timeout")
    ELSE [rdr EXCEPT ![r] = [pc |-> "lock", len |-> len, open |-> FALSE,
                             res |-> "none"]]

\* A goroutine calls Read with len(b) = len.
RdEnter(r, len) ==
    /\ ~rPanic
    /\ rdr[r].pc = "idle"
    /\ rdr' = RdPoll(r, len)
    /\ UNCHANGED <<recvVars, rDeadline, notRecvRd>>

\* A faulty variant of the end of the locked part of Read, which waits even
\* though failErr is set.
RdAfterGetIgnoringFail(r, err) ==
    IF err \in {"blocked", "fail"}
    THEN [rdr EXCEPT ![r].pc = "wait", ![r].open = TRUE]
    ELSE RdReturn(r, err)

\* The end of the locked part of Read: return what Get found, or failErr, or
\* take s.notify and wait on it.
RdAfterGet(r, err) ==
    IF err = "blocked"
    THEN [rdr EXCEPT ![r].pc = "wait", ![r].open = TRUE]
    ELSE RdReturn(r, err)

\* The part of Read that holds s.lock.
RdLocked(r) ==
    /\ ~rPanic
    /\ rdr[r].pc = "lock"
    /\ LET got == Get(rbuf, rdr[r].len)
       IN /\ rbuf' = got.b
          /\ rWindowOpen' = IF Window(got.b) # 0 /\ Window(rbuf) = 0
                            THEN 1 ELSE rWindowOpen
          /\ rRead' = rRead \o got.out
          /\ rdr' = RdAfterGet(r, ReadResult(rbuf, rdr[r].len).err)
    /\ UNCHANGED <<asm, rFailErr, rPanic, rStart, rStreamLen, rSeen, rFinSeen,
                   rDeadline, notRecvRd>>

\* The select of Read takes the notify case: the channel the reader took has
\* been closed, and Read calls itself.
RdWakeNotify(r) ==
    /\ ~rPanic
    /\ rdr[r].pc = "wait"
    /\ ~rdr[r].open
    /\ rdr' = RdPoll(r, rdr[r].len)
    /\ UNCHANGED <<recvVars, rDeadline, notRecvRd>>

\* The select of Read takes the deadline case.
RdWakeTimeout(r) ==
    /\ ~rPanic
    /\ rdr[r].pc = "wait"
    /\ rDeadline
    /\ rdr' = RdReturn(r, "timeout")
    /\ UNCHANGED <<recvVars, rDeadline, notRecvRd>>

\* close(s.notify); s.notify = make(chan struct{}), under s.lock: the channel
\* closed is the one every waiting reader took, since a reader takes
\* s.notify under the same lock.
CloseNotify ==
    [r \in Readers |-> IF rdr[r].pc = "wait"
                       THEN [rdr[r] EXCEPT !.open = FALSE] ELSE rdr[r]]

\* simpleTcpRecv.Handle, with the readers that wait.
RdHandle(s) ==
    /\ ~rPanic
    /\ IsStreamSlice(s)
    /\ LET added   == AddSegment(asm, s)
           skimmed == Skim(added, Window(rbuf))
       IN IF Len(skimmed.avail) > Window(rbuf)
          THEN /\ rPanic' = TRUE
               /\ asm' = skimmed.t
               /\ UNCHANGED <<rbuf, rdr>>
          ELSE /\ asm' = skimmed.t
               /\ rbuf' = IF skimmed.eof
                          THEN PutEOF(Put(rbuf, skimmed.avail))
                          ELSE Put(rbuf, skimmed.avail)
               /\ rdr' = CloseNotify
               /\ UNCHANGED rPanic
    /\ rSeen' = rSeen \cup {Mod(s.Start + i) : i \in 0..(Len(s.Data) - 1)}
    /\ rFinSeen' = (rFinSeen \/ s.Fin)
    /\ UNCHANGED <<rFailErr, rWindowOpen, rStart, rStreamLen, rRead, rDeadline,
                   notRecvRd>>

\* simpleTcpRecv.Fail, with the readers that wait.
RdFail ==
    /\ ~rPanic
    /\ ~rFailErr
    /\ rFailErr' = TRUE
    /\ rdr' = CloseNotify
    /\ UNCHANGED <<asm, rbuf, rWindowOpen, rPanic, rStart, rStreamLen, rSeen,
                   rFinSeen, rRead, rDeadline, notRecvRd>>

\* The read deadline passes.
RdDeadlineFires ==
    /\ ~rPanic
    /\ ~rDeadline
    /\ rDeadline' = TRUE
    /\ UNCHANGED <<recvVars, rdr, notRecvRd>>

\* SetDeadline with a time not yet reached, or with the zero time.
RdSetDeadline ==
    /\ ~rPanic
    /\ rDeadline
    /\ rDeadline' = FALSE
    /\ UNCHANGED <<recvVars, rdr, notRecvRd>>

RdNext ==
    \/ \E r \in Readers, len \in 0..MaxReadLen : RdEnter(r, len)
    \/ \E r \in Readers : RdLocked(r)
    \/ \E r \in Readers : RdWakeNotify(r)
    \/ \E r \in Readers : RdWakeTimeout(r)
    \/ \E s \in Segments : RdHandle(s)
    \/ RdFail
    \/ RdDeadlineFires
    \/ RdSetDeadline

\* A reader goroutine that can run does run.
RdFairness ==
    \A r \in Readers : WF_vars(RdLocked(r)) /\ WF_vars(RdWakeNotify(r))

\* ------------------------------------------------------------------------
\* streamConn.ReadPacket / WritePacket and deadlineManager (net_helpers.go)
\* ------------------------------------------------------------------------
DlCallers == {1, 2}

Deadlines == 1..MaxDeadlines

newDeadlineManager == [exceeded |-> FALSE, waiters |-> {}, cancelCurrent |-> 0]

NoDlCall == [pc |-> "idle", closed |-> FALSE, res |-> "none"]

NoDlGo == [pc |-> "none", cancelled |-> FALSE]

DlStreamOpen == [inc |-> 0, out |-> 0, done |-> FALSE]

DlIdle ==
    /\ dkind = "none"
    /\ dm = newDeadlineManager
    /\ dgo = [g \in Deadlines |-> NoDlGo]
    /\ dcall = [c \in DlCallers |-> NoDlCall]
    /\ dstream = DlStreamOpen

\* newStreamConn
DlInit ==
    /\ dkind \in {"read", "write"}
    /\ dm = newDeadlineManager
    /\ dgo = [g \in Deadlines |-> NoDlGo]
    /\ dcall = [c \in DlCallers |-> NoDlCall]
    /\ dstream = DlStreamOpen

\* A goroutine calls ReadPacket or WritePacket.
DlCall(c) ==
    /\ dcall[c].pc = "idle"
    /\ dcall' = [dcall EXCEPT ![c] = [pc |-> "enter", closed |-> FALSE, res |-> "none"]]
    /\ UNCHANGED <<dkind, dm, dgo, dstream, notDl>>

\* deadlineManager.Wait, and the return of the timeout error when it gives
\* nil.
DlWait(c) ==
    /\ dcall[c].pc = "enter"
    /\ IF dm.exceeded
       THEN /\ dcall' = [dcall EXCEPT ![c] = [pc |-> "ret", closed |-> FALSE,
                                              res |-> "timeout"]]
            /\ UNCHANGED dm
       ELSE /\ dcall' = [dcall EXCEPT ![c].pc = "select"]
            /\ dm' = [dm EXCEPT !.waiters = @ \cup {c}]
    /\ UNCHANGED <<dkind, dgo, dstream, notDl>>

\* The call returns res; the deferred Unwait takes its waiter off the list.
DlReturn(c, res) ==
    /\ dcall' = [dcall EXCEPT ![c].pc = "ret", ![c].res = res]
    /\ dm' = [dm EXCEPT !.waiters = @ \ {c}]

\* The select takes the case <-mgr.Chan.
DlSelectTimeout(c) ==
    /\ dcall[c].pc = "select"
    /\ dcall[c].closed
    /\ DlReturn(c, "timeout")
    /\ UNCHANGED <<dkind, dgo, dstream, notDl>>

\* The select of ReadPacket receives a packet from Incoming(), or the select
\* of WritePacket sends one to Outgoing().
DlSelectPacket(c) ==
    /\ dcall[c].pc = "select"
    /\ \/ /\ dkind = "read"
          /\ dstream.inc > 0
          /\ dstream' = [dstream EXCEPT !.inc = @ - 1]
       \/ /\ dkind = "write"
          /\ dstream.out = 0
          /\ dstream' = [dstream EXCEPT !.out = 1]
    /\ DlReturn(c, "ok")
    /\ UNCHANGED <<dkind, dgo, notDl>>

\* The select of ReadPacket finds Incoming() closed and empty, or the select
\* of WritePacket takes the case <-s.stream.Done().
DlSelectClosed(c) ==
    /\ dcall[c].pc = "select"
    /\ dstream.done
    /\ dkind = "read" => dstream.inc = 0
    /\ DlReturn(c, "closed")
    /\ UNCHANGED <<dkind, dgo, dstream, notDl>>

\* The caller takes the result of its call.
DlDone(c) ==
    /\ dcall[c].pc = "ret"
    /\ dcall' = [dcall EXCEPT ![c] = NoDlCall]
    /\ UNCHANGED <<dkind, dm, dgo, dstream, notDl>>

\* The first part of SetDeadline: exceeded is reset and the goroutine of the
\* deadline before is cancelled.
DlReset ==
    /\ dm' = [dm EXCEPT !.exceeded = FALSE, !.cancelCurrent = 0]
    /\ dgo' = [g \in Deadlines |->
                 IF g = dm.cancelCurrent THEN [dgo[g] EXCEPT !.cancelled = TRUE]
                 ELSE dgo[g]]

\* SetDeadline with the zero time.
DlSetZero ==
    /\ DlReset
    /\ UNCHANGED <<dkind, dcall, dstream, notDl>>

\* A faulty variant of SetDeadline, which leaves the cancel channel of the
\* deadline before open.
DlSetKeepsOld(g) ==
    /\ dgo[g].pc = "none"
    /\ \A h \in Deadlines : h < g => dgo[h].pc # "none"
    /\ dm' = [dm EXCEPT !.exceeded = FALSE, !.cancelCurrent = g]
    /\ dgo' = [dgo EXCEPT ![g] = [pc |-> "sleep", cancelled |-> FALSE]]
    /\ UNCHANGED <<dkind, dcall, dstream, notDl>>

\* SetDeadline with a time t that is not zero: deadline number g starts its
\* goroutine.
DlSet(g) ==
    /\ dgo[g].pc = "none"
    /\ \A h \in Deadlines : h < g => dgo[h].pc # "none"
    /\ dm' = [dm EXCEPT !.exceeded = FALSE, !.cancelCurrent = g]
    /\ dgo' = [h \in Deadlines |->
                 IF h = g THEN [pc |-> "sleep", cancelled |-> FALSE]
                 ELSE IF h = dm.cancelCurrent THEN [dgo[h] EXCEPT !.cancelled = TRUE]
                 ELSE dgo[h]]
    /\ UNCHANGED <<dkind, dcall, dstream, notDl>>

\* The select of the goroutine takes the case <-cancel.
DlGoCancelled(g) ==
    /\ dgo[g].pc = "sleep"
    /\ dgo[g].cancelled
    /\ dgo' = [dgo EXCEPT ![g].pc = "done"]
    /\ UNCHANGED <<dkind, dm, dcall, dstream, notDl>>

\* The time t is reached: the select of the goroutine takes the case
\* <-time.After(...).
DlGoTime(g) ==
    /\ dgo[g].pc = "sleep"
    /\ dgo' = [dgo EXCEPT ![g].pc = "due"]
    /\ UNCHANGED <<dkind, dm, dcall, dstream, notDl>>

\* A faulty variant of the locked part of the goroutine, which does not look
\* at cancel again.
DlGoFireUnchecked(g) ==
    /\ dgo[g].pc = "due"
    /\ dgo' = [dgo EXCEPT ![g].pc = "done"]
    /\ dcall' = [c \in DlCallers |->
                   IF c \in dm.waiters THEN [dcall[c] EXCEPT !.closed = TRUE]
                   ELSE dcall[c]]
    /\ dm' = [dm EXCEPT !.waiters = {}, !.exceeded = TRUE]
    /\ UNCHANGED <<dkind, dstream, notDl>>

\* The locked part of the goroutine: unless cancel is closed, every waiter's
\* Chan is closed, the list is emptied and exceeded is set.
DlGoFire(g) ==
    /\ dgo[g].pc = "due"
    /\ dgo' = [dgo EXCEPT ![g].pc = "done"]
    /\ IF dgo[g].cancelled
       THEN UNCHANGED <<dcall, dm>>
       ELSE /\ dcall' = [c \in DlCallers |->
                           IF c \in dm.waiters THEN [dcall[c] EXCEPT !.closed = TRUE]
                           ELSE dcall[c]]
            /\ dm' = [dm EXCEPT !.waiters = {}, !.exceeded = TRUE]
    /\ UNCHANGED <<dkind, dstream, notDl>>

\* The stream delivers a packet on Incoming().
DlStreamDeliver ==
    /\ ~dstream.done
    /\ dstream.inc = 0
    /\ dstream' = [dstream EXCEPT !.inc = 1]
    /\ UNCHANGED <<dkind, dm, dgo, dcall, notDl>>

\* The stream takes the packet waiting on Outgoing().
DlStreamTake ==
    /\ dstream.out = 1
    /\ dstream' = [dstream EXCEPT !.out = 0]
    /\ UNCHANGED <<dkind, dm, dgo, dcall, notDl>>

\* The stream is closed: Done() and Incoming() are closed.
DlStreamClose ==
    /\ ~dstream.done
    /\ dstream' = [dstream EXCEPT !.done = TRUE]
    /\ UNCHANGED <<dkind, dm, dgo, dcall, notDl>>

DlNext ==
    \/ \E c \in DlCallers : DlCall(c)
    \/ \E c \in DlCallers : DlWait(c)
    \/ \E c \in DlCallers : DlSelectTimeout(c)
    \/ \E c \in DlCallers : DlSelectPacket(c)
    \/ \E c \in DlCallers : DlSelectClosed(c)
    \/ \E c \in DlCallers : DlDone(c)
    \/ DlSetZero
    \/ \E g \in Deadlines : DlSet(g)
    \/ \E g \in Deadlines : DlGoCancelled(g)
    \/ \E g \in Deadlines : DlGoTime(g)
    \/ \E g \in Deadlines : DlGoFire(g)
    \/ DlStreamDeliver
    \/ DlStreamTake
    \/ DlStreamClose

\* A goroutine whose select has a ready case runs.
DlFairness == \A c \in DlCallers : WF_vars(DlSelectTimeout(c))

\* ------------------------------------------------------------------------
\* The defragmenter behind a network that may deliver a packet twice
\* ------------------------------------------------------------------------
DupIdle == dDups = 0

DupSlots == 1..(MaxPayloadLen \div BlockSize + 1 + MaxDups)

\* The packets written are unfragmented, with a header without options and
\* bytes 6 and 7 zero.
DupInit ==
    /\ FragInit
    /\ fragIn.pkt.hlen = 20
    /\ fragIn.pkt.b6 = 0
    /\ fragIn.pkt.b7 = 0

\* The network duplicates a packet that is on its way.
WireDuplicate(i) ==
    /\ dDups < MaxDups
    /\ i <= Len(wire)
    /\ wire' = Append(wire, wire[i])
    /\ dDups' = dDups + 1
    /\ UNCHANGED <<fragIn, clock, recons, dOut, dLast, dFirst, dTimely, notFragDup>>

\* A packet arrives at the filter of DefragmentIncomingIPv4, from any place
\* on the longer wire.
DupIncoming(i) ==
    /\ i \in DupSlots
    /\ DefragIncoming(i)

FragDupNext ==
    \/ FragWrite
    \/ \E i \in DupSlots : DupIncoming(i)
    \/ \E i \in DupSlots : WireDuplicate(i)
    \/ Tick

\* ------------------------------------------------------------------------
\* tcpSendTimer with the function of time.AfterFunc as a goroutine of its
\* own: the timer expires and starts the function, and the function runs
\* tcpSendTimer.Send when it gets t.lock.  timer.Stop() does not stop a
\* function that has been started.
\* ------------------------------------------------------------------------
TmIdle == sFired = <<>>

\* The timer set by schedule expires: its function is started.
SendTimerExpires ==
    /\ sPanic = "none"
    /\ sTimer.armed
    /\ Len(sFired) < MaxFired
    /\ sFired' = Append(sFired, sTimer.seg)
    /\ sTimer' = NoTimer
    /\ UNCHANGED <<notSendTm, wbuf, sWindow, sFailErr, sNext, sDeadline, sPanic,
                   writers, sDeposited, sAdvance, sOffered, sFinOffered>>

\* A started function takes t.lock and runs tcpSendTimer.Send(seg).
SendTimerRuns(i) ==
    /\ sPanic = "none"
    /\ i \in 1..Len(sFired)
    /\ LET sent == TimerSend(sNext, sFired[i])
       IN /\ sNext' = sent.next
          /\ sTimer' = sent.timer
          /\ NoteOffered(sent.offered)
    /\ sFired' = SubSeq(sFired, 1, i - 1) \o SubSeq(sFired, i + 1, Len(sFired))
    /\ UNCHANGED <<notSendTm, wbuf, sWindow, sFailErr, sDeadline, sPanic, writers,
                   sDeposited, sAdvance>>

SendTimerNext ==
    \/ SendNext
    \/ SendTimerExpires
    \/ \E i \in 1..MaxFired : SendTimerRuns(i)

\* ------------------------------------------------------------------------
\* tcp4Listener.loop with the handshake it runs for each SYN, and Accept
\* ------------------------------------------------------------------------
NoLoop == [pc |-> "none", queued |-> 0, closed |-> FALSE, mclosed |-> FALSE,
           syns |-> 0, accepted |-> 0, eof |-> FALSE]

AcIdle == al = NoLoop

\* ListenTCP has returned: the loop ranges over the Incoming() of its fork.
AcInit == al = [NoLoop EXCEPT !.pc = "range"]

\* The loop takes a SYN from its fork, forks a stream for the remote and
\* calls tcp4ServerHandshake.
AcSyn(localSeq, syn) ==
    /\ al.pc = "range"
    /\ ~al.mclosed
    /\ al.syns < MaxSyns
    /\ al' = [al EXCEPT !.pc = "handshake", !.syns = @ + 1]
    /\ hs' = [pc |-> "poll", i |-> 0, localSeq |-> localSeq, syn |-> syn,
              synAck |-> [seq |-> localSeq, ack |-> Mod(syn + 1)],
              timer |-> "none", offers |-> 0, elapsed |-> 0,
              pkt |-> [ack |-> FALSE, syn |-> FALSE, off |-> 0],
              err |-> "none", res |-> NoHandshake, conn |-> NoConn]
    /\ hstream' = [inc |-> <<>>, incClosed |-> FALSE, done |-> FALSE]
    /\ UNCHANGED notHsAc

\* The range ends, or Fork fails, because the listener's multiplexer is
\* closed: the loop returns and the deferred close(t.conns) runs.
AcRangeEnds ==
    /\ al.pc = "range"
    /\ al.mclosed
    /\ al' = [al EXCEPT !.pc = "exit", !.closed = TRUE]
    /\ UNCHANGED <<hs, hstream, notHsAc>>

\* tcp4ServerHandshake returned an error: stream.Close(); return, and the
\* deferred close(t.conns) runs.
AcHandshakeFails ==
    /\ al.pc = "handshake"
    /\ hs.pc = "done"
    /\ hs.err \notin {"nil", "none"}
    /\ al' = [al EXCEPT !.pc = "exit", !.closed = TRUE]
    /\ hstream' = [hstream EXCEPT !.done = TRUE]
    /\ UNCHANGED <<hs, notHsAc>>

\* t.conns <- conn, on a channel with room for one connection.
AcQueueConn ==
    /\ al.pc = "handshake"
    /\ hs.conn.made
    /\ al.queued < 1
    /\ al' = [al EXCEPT !.pc = "range", !.queued = @ + 1]
    /\ UNCHANGED <<hs, hstream, notHsAc>>

\* tcp4Listener.Accept: conn := <-t.conns gives a connection, or nil when
\* the channel is closed and empty.
AcAccept ==
    /\ al.pc # "none"
    /\ IF al.queued > 0
       THEN al' = [al EXCEPT !.queued = @ - 1, !.accepted = @ + 1]
       ELSE al.closed /\ ~al.eof /\ al' = [al EXCEPT !.eof = TRUE]
    /\ UNCHANGED <<hs, hstream, notHsAc>>

\* tcp4Listener.Close, or the stream under the listener closes: the
\* listener's multiplexer closes, and with it the stream of a handshake.
AcClose ==
    /\ al.pc # "none"
    /\ ~al.mclosed
    /\ al' = [al EXCEPT !.mclosed = TRUE]
    /\ hstream' = [hstream EXCEPT !.done = TRUE]
    /\ UNCHANGED <<hs, notHsAc>>

AcNext ==
    \/ \E localSeq \in HsSeqs, syn \in HsSeqs : AcSyn(localSeq, syn)
    \/ AcRangeEnds
    \/ AcHandshakeFails
    \/ AcQueueConn
    \/ AcAccept
    \/ AcClose
    \/ HsPoll
    \/ HsOffer
    \/ HsTimerFires
    \/ HsTimeout
    \/ HsRecv
    \/ HsRecvClosed
    \/ HsMakeConn
    \/ \E pkt \in HsPackets : HsDeliver(pkt)
    \/ HsStreamCloseIncoming

\* ------------------------------------------------------------------------
\* Specifications: each runs one component and leaves the others as built.
\* ------------------------------------------------------------------------
\* The fragmenter and defragmenter before any packet is written.
FragIdle ==
    /\ fragIn = [pkt |-> NoPacket, mtu |-> 0, written |-> FALSE,
                 err |-> "none", count |-> 0, foreign |-> 0]
    /\ wire = <<>>
    /\ clock = 0
    /\ recons = <<>>
    /\ dOut = <<>>
    /\ dLast = [pkt |-> NoPacket, out |-> NoPacket, touched |-> FALSE]
    /\ dFirst = -1
    /\ dTimely = TRUE

\* No handshake under way.
HsIdle ==
    /\ hs = [pc |-> "done", i |-> 0, localSeq |-> 0, syn |-> 0,
             synAck |-> [seq |-> 0, ack |-> 0],
             timer |-> "none", offers |-> 0, elapsed |-> 0,
             pkt |-> [ack |-> FALSE, syn |-> FALSE, off |-> 0],
             err |-> "none", res |-> NoHandshake, conn |-> NoConn]
    /\ hstream = [inc |-> <<>>, incClosed |-> FALSE, done |-> FALSE]

RecvIdle ==
    /\ rStart = RecvStart
    /\ rStreamLen = 1
    /\ rbuf = newTCPRecvBuffer(1)
    /\ asm = newTCPAssembler(rStart)
    /\ rFailErr = FALSE
    /\ rWindowOpen = 0
    /\ rPanic = FALSE
    /\ rSeen = {}
    /\ rFinSeen = FALSE
    /\ rRead = <<>>

SendIdle ==
    /\ wbuf = newTCPWriteBuffer(SendStart)
    /\ sWindow = 0
    /\ sFailErr = FALSE
    /\ sNext = <<>>
    /\ sTimer = NoTimer
    /\ sDeadline = FALSE
    /\ sPanic = "none"
    /\ writers = [w \in Writers |-> IdleWriter]
    /\ sDeposited = 0
    /\ sAdvance = 0
    /\ sOffered = {}
    /\ sFinOffered = FALSE

InitRecv == RecvInit /\ SendIdle /\ MuxInit /\ PipeInit /\ FilterInit /\ FragIdle
    /\ HsIdle
    /\ ConnInit
    /\ PaInit
    /\ LstInit
    /\ UdpInit
    /\ CkIdle
    /\ RdIdle
    /\ DlIdle
    /\ DupIdle
    /\ TmIdle
    /\ AcIdle

InitSend == SendInit /\ RecvIdle /\ MuxInit /\ PipeInit /\ FilterInit /\ FragIdle
    /\ HsIdle
    /\ ConnInit
    /\ PaInit
    /\ LstInit
    /\ UdpInit
    /\ CkIdle
    /\ RdIdle
    /\ DlIdle
    /\ DupIdle
    /\ TmIdle
    /\ AcIdle

InitMux == MuxInit /\ RecvIdle /\ SendIdle /\ PipeInit /\ FilterInit /\ FragIdle
    /\ HsIdle
    /\ ConnInit
    /\ PaInit
    /\ LstInit
    /\ UdpInit
    /\ CkIdle
    /\ RdIdle
    /\ DlIdle
    /\ DupIdle
    /\ TmIdle
    /\ AcIdle

SpecRecv == InitRecv /\ [][RecvNext]_vars

SpecSend == InitSend /\ [][SendNext]_vars

SpecMux == InitMux /\ [][MuxNext]_vars

\* The scheduler runs every goroutine that can take a step, and a select
\* chooses at random among its ready cases, so that a case which is ready
\* again and again is taken in the end.
MuxFairness ==
    /\ WF_vars(MuxHandleIncoming)
    /\ WF_vars(MuxLoopClose)
    /\ SF_vars(MuxLoopDone)
    /\ \A c \in ChildIds : WF_vars(ChildSendReleased(c))

SpecMuxFlood == InitMux /\ [][MuxFloodNext]_vars /\ MuxFairness

InitPipe == PipeInit /\ RecvIdle /\ SendIdle /\ MuxInit /\ FilterInit /\ FragIdle
    /\ HsIdle
    /\ ConnInit
    /\ PaInit
    /\ LstInit
    /\ UdpInit
    /\ CkIdle
    /\ RdIdle
    /\ DlIdle
    /\ DupIdle
    /\ TmIdle
    /\ AcIdle

SpecPipe == InitPipe /\ [][PipeNext]_vars

InitFilter == FilterInit /\ RecvIdle /\ SendIdle /\ MuxInit /\ PipeInit /\ FragIdle
    /\ HsIdle
    /\ ConnInit
    /\ PaInit
    /\ LstInit
    /\ UdpInit
    /\ CkIdle
    /\ RdIdle
    /\ DlIdle
    /\ DupIdle
    /\ TmIdle
    /\ AcIdle

SpecFilter == InitFilter /\ [][FilterNext]_vars

InitPressure == MuxInit /\ PipeInit /\ RecvIdle /\ SendIdle /\ FilterInit /\ FragIdle
    /\ HsIdle
    /\ ConnInit
    /\ PaInit
    /\ LstInit
    /\ UdpInit
    /\ CkIdle
    /\ RdIdle
    /\ DlIdle
    /\ DupIdle
    /\ TmIdle
    /\ AcIdle

SpecPressure == InitPressure /\ [][PressureNext]_vars

InitFrag ==
    FragInit /\ RecvIdle /\ SendIdle /\ MuxInit /\ PipeInit /\ FilterInit
    /\ HsIdle
    /\ ConnInit
    /\ PaInit
    /\ LstInit
    /\ UdpInit
    /\ CkIdle
    /\ RdIdle
    /\ DlIdle
    /\ DupIdle
    /\ TmIdle
    /\ AcIdle

SpecFrag == InitFrag /\ [][FragNext]_vars

InitHandshake ==
    HsInit /\ RecvIdle /\ SendIdle /\ MuxInit /\ PipeInit /\ FilterInit
    /\ FragIdle
    /\ ConnInit
    /\ PaInit
    /\ LstInit
    /\ UdpInit
    /\ CkIdle
    /\ RdIdle
    /\ DlIdle
    /\ DupIdle
    /\ TmIdle
    /\ AcIdle

SpecHandshake == InitHandshake /\ [][HsNext]_vars /\ HsFairness

InitConn ==
    ConnInit /\ RecvIdle /\ SendIdle /\ MuxInit /\ PipeInit /\ FilterInit
    /\ FragIdle /\ HsIdle
    /\ PaInit
    /\ LstInit
    /\ UdpInit
    /\ CkIdle
    /\ RdIdle
    /\ DlIdle
    /\ DupIdle
    /\ TmIdle
    /\ AcIdle

SpecConn == InitConn /\ [][ConnNext]_vars

InitPorts ==
    PaInit /\ RecvIdle /\ SendIdle /\ MuxInit /\ PipeInit /\ FilterInit
    /\ FragIdle /\ HsIdle /\ ConnInit
    /\ LstInit
    /\ UdpInit
    /\ CkIdle
    /\ RdIdle
    /\ DlIdle
    /\ DupIdle
    /\ TmIdle
    /\ AcIdle

SpecPorts == InitPorts /\ [][PaNext]_vars

InitListen ==
    LstInit /\ PaInit /\ RecvIdle /\ SendIdle /\ MuxInit /\ PipeInit
    /\ FilterInit /\ FragIdle /\ HsIdle /\ ConnInit
    /\ UdpInit
    /\ CkIdle
    /\ RdIdle
    /\ DlIdle
    /\ DupIdle
    /\ TmIdle
    /\ AcIdle

SpecListen == InitListen /\ [][LstNext]_vars

\* The port allocator given to a net may be shared: some ports are taken
\* by other users before the net is used.
PaTaken ==
    /\ ports \in [Used : [0 .. NumPorts - 1 -> BOOLEAN], holder : {0}]
    /\ pcall = [c \in Callers |-> IdleCall]
    /\ paHeld = [i \in 0 .. NumPorts - 1 |-> IF ports.Used[i] THEN 1 ELSE 0]

InitUdp ==
    UdpInit /\ PaTaken /\ RecvIdle /\ SendIdle /\ MuxInit /\ PipeInit
    /\ FilterInit /\ FragIdle /\ HsIdle /\ ConnInit /\ LstInit
    /\ CkIdle
    /\ RdIdle
    /\ DlIdle
    /\ DupIdle
    /\ TmIdle
    /\ AcIdle

SpecUdp == InitUdp /\ [][UdpNext]_vars /\ UdpFairness

InitCk ==
    CkInit /\ RecvIdle /\ SendIdle /\ MuxInit /\ PipeInit /\ FilterInit
    /\ FragIdle /\ HsIdle /\ ConnInit /\ PaInit /\ LstInit /\ UdpInit
    /\ RdIdle
    /\ DlIdle
    /\ DupIdle
    /\ TmIdle
    /\ AcIdle

SpecCk == InitCk /\ [][CkNext]_vars

SpecRead == InitRecv /\ [][RdNext]_vars /\ RdFairness

InitDeadline ==
    DlInit /\ RecvIdle /\ SendIdle /\ MuxInit /\ PipeInit /\ FilterInit
    /\ FragIdle /\ HsIdle /\ ConnInit /\ PaInit /\ LstInit /\ UdpInit /\ CkIdle
    /\ RdIdle
    /\ DupIdle
    /\ TmIdle
    /\ AcIdle

SpecDeadline == InitDeadline /\ [][DlNext]_vars /\ DlFairness

InitFragDup ==
    DupInit /\ RecvIdle /\ SendIdle /\ MuxInit /\ PipeInit /\ FilterInit
    /\ HsIdle /\ ConnInit /\ PaInit /\ LstInit /\ UdpInit /\ CkIdle /\ RdIdle
    /\ DlIdle /\ DupIdle
    /\ TmIdle
    /\ AcIdle

SpecFragDup == InitFragDup /\ [][FragDupNext]_vars

InitWindow ==
    BigRecvInit /\ SendIdle /\ MuxInit /\ PipeInit /\ FilterInit /\ FragIdle
    /\ HsIdle /\ ConnInit /\ PaInit /\ LstInit /\ UdpInit /\ CkIdle /\ RdIdle
    /\ DlIdle /\ DupIdle
    /\ TmIdle
    /\ AcIdle

SpecWindow == InitWindow /\ [][RecvNext]_vars

SpecSendTimer == InitSend /\ [][SendTimerNext]_vars

InitAccept ==
    AcInit /\ HsIdle /\ RecvIdle /\ SendIdle /\ MuxInit /\ PipeInit /\ FilterInit
    /\ FragIdle /\ ConnInit /\ PaInit /\ LstInit /\ UdpInit /\ CkIdle /\ RdIdle
    /\ DlIdle /\ DupIdle /\ TmIdle

SpecAccept == InitAccept /\ [][AcNext]_vars

\* ------------------------------------------------------------------------
\* Properties
\* ------------------------------------------------------------------------

\* C1: at every moment the bytes returned by the Read calls so far are the
\* bytes of the peer's stream at positions rStart, rStart + 1, ... in this
\* order, none twice and none skipped, and each of them was carried by a
\* segment handled before.
C1_ReadIsStreamPrefix ==
    /\ Len(rRead) <= rStreamLen
    /\ rRead = DataAt(rStart, Len(rRead))
    /\ \A k \in 1..Len(rRead) : Mod(rStart + k - 1) \in rSeen

\* C1 witness: bytes were read across the wrap of the sequence space while
\* a later segment waits in the assembler behind a gap.
C1_Witness ==
    /\ Len(rRead) >= 2
    /\ rRead[2] = ByteAt(0)
    /\ ~asm.mask[1]
    /\ asm.mask[2]

\* The handled segments cover the whole stream, which fits the assembler
\* window, and the FIN has been handled.
AllHandled ==
    /\ rStreamLen <= AsmLen
    /\ \A k \in 1..rStreamLen : Mod(rStart + k - 1) \in rSeen
    /\ rFinSeen

\* C2: once the segments covering the stream and its FIN have been handled,
\* a reader that keeps calling Read gets the remaining bytes and then EOF
\* with no further Handle: no Read finds neither a byte nor EOF.
C2_ReaderGetsAll ==
    (AllHandled /\ ~rFailErr) => ReadResult(rbuf, 1).err \in {"nil", "EOF"}

\* C3: the write buffer never holds data together with a pending EOF, and
\* SetData and SetEOF never find something still being sent: the panic
\* "already sending something" does not happen.
C3_NeverAlreadySending ==
    /\ ~(Len(wbuf.buffer) > 0 /\ wbuf.sendEOF)
    /\ sPanic = "none"

\* C4: a Write returns (len(b), nil) only when the acks handled cover all its
\* bytes; a writer leaves its wait on notify only then, or after Fail, or
\* when its deadline has expired; and a Write deposits its bytes only when
\* every byte deposited before has been acknowledged.
C4_WriteReturnsAfterAck ==
    [][/\ \A w \in Writers :
            (SendReturn(w, "ok") /\ ~writers[w].close) =>
                (sAdvance >= writers[w].end /\ Len(wbuf.buffer) = 0)
       /\ \A w \in Writers :
            (writers[w].pc = "wait" /\ writers'[w].pc # "wait") =>
                \/ sAdvance >= writers[w].end + (IF writers[w].close THEN 1 ELSE 0)
                \/ sFailErr
                \/ writers[w].dl = "fired"
       /\ \A w \in Writers, len \in 1..MaxWriteLen :
            (SendEnter(w, FALSE, len) /\ sPanic' = "none") =>
                (sAdvance = sDeposited /\ WriteLockFree)]_vars

\* C4 witness: a second Write, whose bytes follow those of a first, is about
\* to return (len(b), nil).
C4_Witness ==
    \E w \in Writers :
        /\ writers[w].pc = "post"
        /\ ~writers[w].close
        /\ writers[w].end - writers[w].len > 0
        /\ ~sFailErr

\* C5: the send sequence moves past a byte only after the byte was put on
\* Next() in some segment, and sentEOF becomes true only after a FIN segment
\* was put on Next().
C5_OfferedBeforeAdvance ==
    /\ \A i \in 1..sDeposited : i <= sAdvance => i \in sOffered
    /\ wbuf.sentEOF => sFinOffered

\* C6: Handle(ack, window) with offset = (ack - sequence) mod 2^SeqBits
\* leaves the write buffer alone when offset > remaining; otherwise it moves
\* the sequence forward by offset and drops the first offset pending bytes, or
\* marks the pending FIN as sent.
C6_HandleAdvances ==
    [][\A off \in AckOffsets :
          SendHandle(Mod(wbuf.sequence + off), sWindow') =>
              LET ack == Mod(wbuf.sequence + off)
                  offset == Mod(ack - wbuf.sequence)
                  remaining == IF wbuf.sendEOF /\ ~wbuf.sentEOF
                               THEN 1 ELSE Len(wbuf.buffer)
              IN IF offset > remaining
                 THEN wbuf' = wbuf /\ sAdvance' = sAdvance
                 ELSE /\ wbuf'.sequence = Mod(wbuf.sequence + offset)
                      /\ sAdvance' = sAdvance + offset
                      /\ wbuf'.buffer = SubSeq(wbuf.buffer, offset + 1, Len(wbuf.buffer))
                      /\ wbuf'.sendEOF = wbuf.sendEOF
                      /\ wbuf'.sentEOF = (wbuf.sentEOF \/ (wbuf.sendEOF /\ offset = 1))]_vars

\* C6 witness: an ack has taken the first of two pending bytes, and the
\* second is still pending.
C6_Witness ==
    /\ sAdvance = 1
    /\ sDeposited = 2
    /\ wbuf.buffer = <<2>>
    /\ wbuf.sequence = Mod(SendStart + 1)

\* C7: what a child has received and what waits in its queue are packets the
\* underlying stream delivered, each once and in the order of delivery;
\* nothing else is ever put in a child's queue.
C7_ChildSeesSubsequence ==
    \A c \in ChildIds :
        LET q == kids[c].queue
        IN /\ \A i \in 1..Len(q) : q[i] \in 1..mux.taken
           /\ \A i \in 1..Len(q) : q[i] > kids[c].last
           /\ \A i \in 1..Len(q), j \in 1..Len(q) : i < j => q[i] < q[j]

\* Every forked child has Done() and Incoming() closed and no writer blocked
\* in Send (a program that died of a panic has no writers).
ChildrenReleased ==
    \A c \in ChildIds :
        kids[c].forked =>
            /\ kids[c].doneClosed
            /\ kids[c].incClosed
            /\ (kids[c].writer # "blocked" \/ mux.panic # "none")

\* C8: once MultiStream.Close() has been called or the Done() of the
\* underlying stream has fired, the children end up closed and their blocked
\* writers released, and stay so, under a flood of packets in both
\* directions.
C8_CloseReleasesChildren ==
    []((mux.closed \/ ustream.done) => <>[]ChildrenReleased)

\* C8 witness: the multiplexer is closed while a writer is blocked in Send on
\* a closed child whose queue holds a packet of the flood.
C8_Witness ==
    /\ mux.closed
    /\ \E c \in ChildIds :
          /\ kids[c].forked
          /\ kids[c].doneClosed
          /\ kids[c].writer = "blocked"
          /\ kids[c].queue # <<>>

\* C9: no close() hits a channel that is already closed, whatever the order
\* of child Close, MultiStream Close and disconnect; a Close() on a closed
\* child returns AlreadyClosedErr instead.
C9_NoChannelClosedTwice ==
    mux.panic # "close of closed channel"

\* C10: a child Close() that succeeds closes the Done() and Incoming() of
\* that child only and takes that child only out of the child list; the
\* multiplexer stays open (so that Fork succeeds) and so does the underlying
\* stream; and a fan-out gives the packet to every child in the list whose
\* queue has room.
C10_ChildCloseIsLocal ==
    [][/\ \A c \in ChildIds :
            MuxChildClose(c, "nil") =>
                /\ kids'[c] = [kids[c] EXCEPT !.doneClosed = TRUE, !.incClosed = TRUE]
                /\ \A d \in ChildIds \ {c} : kids'[d] = kids[d]
                /\ Range(mux'.children) = Range(mux.children) \ {c}
                /\ Len(mux'.children) = Len(mux.children) - 1
                /\ ~mux'.closed
                /\ mux'.loop = mux.loop
                /\ ustream' = ustream
       /\ (MuxHandleIncoming /\ ~mux.closed) =>
            \A d \in ChildIds :
                kids'[d].queue =
                    IF d \in Range(mux.children) /\ Len(kids[d].queue) < kids[d].cap
                    THEN Append(kids[d].queue, mux.pkt)
                    ELSE kids[d].queue]_vars

\* C10 witness: the first child was closed before any packet arrived, the
\* multiplexer is open, and the second child has since been given a packet.
C10_Witness ==
    /\ ~mux.closed
    /\ kids[1].forked /\ kids[1].doneClosed /\ kids[1].incClosed
    /\ kids[1].queue = <<>> /\ kids[1].last = 0
    /\ mux.children = <<2>>
    /\ kids[2].queue # <<>>
    /\ ~kids[2].doneClosed


\* C11: once the shared Done channel of a Pipe has been closed, no packet
\* is delivered to a receiver on the Incoming() of either endpoint.
C11_NoDeliveryAfterDone == pLate = FALSE

\* C12: the filter functions installed by Filter are never invoked on a
\* packet once the Done channel of the wrapped stream has been closed.
C12_NoFilterCallAfterDone == fLate = FALSE

\* C13: write backpressure.  With a child forked from a multiplexer over
\* pipe1 = Pipe(n), the sends on child.Outgoing() that completed exceed the
\* packets read from pipe2.Incoming() by at most n + 3; a send blocks for
\* good (no forwarder can move) only when they exceed them by exactly n + 3,
\* so that n + 3 sends complete with nobody reading and every packet read
\* lets exactly one more send complete.
C13_WriteBackpressure ==
    /\ PressureCompleted - Len(pGot[2]) <= PipeBuffer + 3
    /\ (kids[1].writer = "blocked" /\ ~ENABLED ChildSendAccepted(1)
            /\ PressureForwardersBlocked)
        => PressureCompleted - Len(pGot[2]) = PipeBuffer + 3

\* n + 3 sends completed unread and the next one blocked; a packet was
\* read, one more send completed and the following one is blocked again.
C13_Witness ==
    /\ Len(pGot[2]) = 1
    /\ PressureCompleted = PipeBuffer + 4
    /\ kids[1].writer = "blocked"
    /\ PressureForwardersBlocked
    /\ Len(pipe.buf[1]) = PipeBuffer
    /\ pipe.out[1].pc = "send"
    /\ pipe.inc[2].pc = "parked"
    /\ kids[1].fwd = "send"

\* The fragment fields as the wire format places them: DF is bit 0x40 of
\* byte 6, MF bit 0x20, bit 0x80 is reserved and zero.
WireDontFragment(p) == BitSet(p.b6, 64)

WireMoreFragments(p) == BitSet(p.b6, 32)

WireFragmentOffset(p) == (p.b6 % 32) * 256 + p.b7

WireUnfragmented(p) ==
    /\ ~BitSet(p.b6, 128)
    /\ ~WireMoreFragments(p)
    /\ WireFragmentOffset(p) = 0

\* The fragments of the written packet that have arrived.
OursArrived ==
    fragIn.count - Cardinality({i \in 1..Len(wire) : IsOurs(wire[i])})

\* The packets the defragmenter emitted for the written packet.
OursOut == SelectSeq(dOut, IsOurs)

\* Equal payload and header, apart from identification, checksum and
\* fragment fields.
SameDatagram(q, p) ==
    /\ q.hlen = p.hlen
    /\ q.tot = p.tot
    /\ q.src = p.src
    /\ q.opt = p.opt
    /\ q.payload = p.payload

\* C14: fragment/defragment round trip.  For a valid unfragmented packet P
\* with DF clear, len(P) >= mtu and mtu >= header length + 8, Write
\* succeeds; while fragments of P are still missing the defragmenter has
\* emitted nothing for P, and once they have all arrived, in any order,
\* within the timeout and interleaved with fragments of another (source,
\* identification), it has emitted exactly one packet for P, with P's
\* payload and header.
C14_FragmentRoundTrip ==
    (/\ fragIn.written
     /\ WireUnfragmented(fragIn.pkt)
     /\ ~WireDontFragment(fragIn.pkt)
     /\ PacketLen(fragIn.pkt) >= fragIn.mtu
     /\ fragIn.mtu >= fragIn.pkt.hlen + BlockSize
     /\ dTimely)
    => /\ fragIn.err = "nil"
       /\ fragIn.count >= 1
       /\ IF OursArrived = fragIn.count
          THEN Len(OursOut) = 1 /\ SameDatagram(OursOut[1], fragIn.pkt)
          ELSE OursOut = <<>>

\* Three fragments arrived with the middle one last, after time has passed
\* and while the reassembly of a packet with the same identification from
\* another source is under way; the packet was emitted.
C14_Witness ==
    /\ fragIn.count = 3
    /\ OursArrived = 3
    /\ fragIn.foreign = 1
    /\ Len(recons) = 1
    /\ clock > 0
    /\ dTimely
    /\ IsOurs(dLast.pkt)
    /\ FragmentInfo(dLast.pkt).fragOffset = 1
    /\ Len(OursOut) = 1
    /\ SameDatagram(dLast.out, fragIn.pkt)

\* C15: an incoming unfragmented packet (MF clear, fragment offset 0) whose
\* don't-fragment bit is set (byte 6 = 0x40) passes through the
\* defragmenter at once and unchanged, and no reassembly entry is created
\* or touched.
C15_DontFragmentPassesThrough ==
    (/\ dLast.pkt # NoPacket
     /\ WireUnfragmented(dLast.pkt)
     /\ WireDontFragment(dLast.pkt))
    => /\ dLast.out = dLast.pkt
       /\ ~dLast.touched

\* C16: the server handshake offers the SYN+ACK at most 10 times, each
\* offer after the first only when the interval of the one before has
\* elapsed, and terminates in every execution: with success on the first
\* acceptable ACK it receives, with an error when the stream has closed,
\* and with the handshake-failed error once the tenth interval has elapsed;
\* a packet that is not acceptable neither ends the handshake nor touches
\* the running interval.
C16_HandshakeTerminates ==
    /\ [](/\ hs.offers <= tcpNumRetries
          /\ hs.offers <= hs.elapsed + 1
          /\ hs.err = "connection failed"
                => hs.elapsed = tcpNumRetries /\ hs.offers = tcpNumRetries
          /\ hs.err = "stream closed" => hstream.done)
    /\ <>(hs.pc = "done")
    /\ [][HsRecv =>
            IF Acceptable(Head(hstream.inc), hs.localSeq)
            THEN hs'.pc = "done" /\ hs'.err = "nil"
            ELSE hs' = hs]_vars

\* Ten offers were made, packets that are not acceptable arrived, and the
\* handshake failed.
C16_Witness ==
    /\ hs.pc = "done"
    /\ hs.err = "connection failed"
    /\ hs.offers = tcpNumRetries
    /\ hstream.inc # <<>>
    /\ ~hstream.done

\* C17: the handshake succeeds only on a packet with ACK set, SYN clear and
\* acknowledgement number localSeq + 1, where localSeq is the sequence
\* number of the SYN+ACK, which acknowledges the SYN's sequence number + 1;
\* the connection made from the result sends from localSeq + 1 and expects
\* to receive from the SYN's sequence number + 1.
C17_HandshakeNumbers ==
    /\ hs.synAck.seq = hs.localSeq
    /\ hs.synAck.ack = (hs.syn + 1) % SeqMod
    /\ hs.err = "nil"
        => /\ hs.pkt.ack
           /\ ~hs.pkt.syn
           /\ (hs.localSeq + hs.pkt.off) % SeqMod = (hs.localSeq + 1) % SeqMod
    /\ hs.conn.made
        => /\ hs.conn.send = (hs.localSeq + 1) % SeqMod
           /\ hs.conn.recv = (hs.syn + 1) % SeqMod

\* A connection was made after a handshake whose sequence numbers wrap.
C17_Witness ==
    /\ hs.conn.made
    /\ hs.localSeq = SeqMod - 1
    /\ hs.syn = SeqMod - 1
    /\ hs.conn.send = 0
    /\ hs.conn.recv = 0
    /\ hs.i > 0

\* C18: when the stream under an established TCP connection closes, the
\* connection loop ends without crashing (and blocked Reads and Writes
\* return an error).
C18_LoopSurvivesStreamClose == conn.pc # "panic"

\* C20: in the basic port allocator, under any interleaving of AllocAny,
\* Alloc, AllocRemote, Free and FreeRemote by concurrent callers, a port
\* returned by a successful allocation is not returned by another
\* successful allocation before a Free or FreeRemote of it has succeeded.
C20_NoDoubleAllocation ==
    /\ \A i \in DOMAIN paHeld : paHeld[i] <= 1
    /\ \A i \in DOMAIN paHeld : (paHeld[i] = 1) <=> ports.Used[i]

\* Caller 1 freed a port and caller 2 then allocated that same port again:
\* the last call of caller 1 is a successful Free of it, the last call of
\* caller 2 a successful allocation of it, and it is in use.
C20_Witness ==
    /\ \A c \in Callers : pcall[c].pc = "idle" /\ pcall[c].err = "none"
    /\ pcall[1].op \in {"Free", "FreeRemote"}
    /\ pcall[2].op \in AllocOps
    /\ pcall[1].ret = pcall[2].ret
    /\ ports.Used[pcall[2].ret]
PaReturns(c) == pcall'[c] # pcall[c] /\ pcall'[c].pc = "idle"

\* The condition under which the call that returns must have failed, on the
\* table as it is when the call returns.
PaMustFail(call) ==
    IF call.op \in {"AllocAny", "AllocRemote"}
    THEN \A i \in DOMAIN ports.Used : ports.Used[i]
    ELSE IF call.op = "Alloc"
    THEN ~PortInRange(call.port) \/ ports.Used[call.port]
    ELSE ~PortInRange(call.port) \/ ~ports.Used[call.port]

\* C21: Free(p) fails iff p is out of range or not allocated, Alloc(p) fails
\* iff p is out of range or allocated, AllocAny fails iff every port is in
\* use; a failing call leaves the table unchanged, a successful one changes
\* only the entry of its port (and no other step changes the table).
C21_ErrorsAndTable ==
    [][/\ \A c \in Callers :
              PaReturns(c) =>
                  LET call == pcall'[c] IN
                  /\ (call.err # "none") <=> PaMustFail(call)
                  /\ call.err # "none" => ports'.Used = ports.Used
                  /\ call.err = "none" =>
                         /\ PortInRange(call.ret)
                         /\ call.op \in {"Alloc", "Free", "FreeRemote"}
                                => call.ret = call.port
                         /\ ports'.Used = [ports.Used EXCEPT ![call.ret] =
                                               call.op \in AllocOps]
                         /\ ports'.Used # ports.Used
       /\ (\A c \in Callers : ~PaReturns(c)) => ports'.Used = ports.Used
      ]_vars

\* Every port is in use, one AllocAny has just failed for that reason, and
\* the other caller's last call was a Free refused for a port out of range.
C21_Witness ==
    /\ \A i \in DOMAIN ports.Used : ports.Used[i]
    /\ pcall[1].pc = "idle" /\ pcall[1].op = "AllocAny"
    /\ pcall[1].err = "alloc port: no free ports"
    /\ pcall[2].pc = "idle" /\ pcall[2].op = "Free"
    /\ pcall[2].err = "free port: port out of range"

\* C22: ListenUDP reserves the local port of the socket in the port
\* allocator for as long as the socket is open, so two listening sockets of
\* one UDP net that are open at the same time have different local ports.
C22_ListenReservesPort ==
    \A k \in Socks :
        (usock[k].st = "open" /\ usock[k].kind = "listen" /\ ~usock[k].done)
            => /\ ports.Used[usock[k].port]
               /\ \A j \in Socks \ {k} :
                      (usock[j].st = "open" /\ usock[j].kind = "listen"
                       /\ ~usock[j].done)
                          => usock[j].port # usock[k].port

\* C23: a UDP socket whose local port came from the port allocator has that
\* port freed once its stream's Done() has fired (socket closed or net
\* closed): eventually, not before, and exactly once.
C23_PortFreedOnce ==
    /\ [](\A k \in Socks :
              /\ usock[k].frees <= 1
              /\ usock[k].frees = 1 => usock[k].alloc /\ usock[k].done
              /\ usock[k].freer = "done" => usock[k].frees = 1
              /\ (usock[k].alloc /\ usock[k].frees = 0)
                     => ports.Used[usock[k].port])
    /\ \A k \in Socks :
           (usock[k].alloc /\ usock[k].done) ~> (usock[k].frees = 1)
    /\ [][\A k \in Socks :
              usock'[k].frees = usock[k].frees + 1
                  => ports.Used[usock[k].port] /\ ~ports'.Used[usock[k].port]
       ]_vars

\* Both sockets took their ports from the allocator, one by DialUDP and one
\* by ListenUDP, the net was closed, and both ports have been freed.
C23_Witness ==
    /\ unet.closed
    /\ usock[1].kind = "dial" /\ usock[2].kind = "listen"
    /\ \A k \in Socks : usock[k].alloc /\ usock[k].frees = 1
    /\ usock[1].port # usock[2].port
    /\ ~ports.Used[usock[1].port] /\ ~ports.Used[usock[2].port]

\* C24: UDP4Packet.Checksum() is the Internet checksum of the pseudo-header
\* source || destination || 0 || 17 || UDP length followed by the UDP
\* header and payload, so a packet built by NewUDP4Packet verifies to zero
\* under that definition.
C24_UdpPseudoHeaderChecksum ==
    upkt.sum # -1 =>
        /\ upkt.sum = InternetChecksum(PseudoPacketSrcDst(upkt))
        /\ upkt.stage = "built" =>
               InternetChecksum(PseudoPacketSrcDst(upkt)) = 0

\* A segment is put on Next() in this step.
PutOnNext == Len(sNext') > Len(sNext)

\* The first segment with data is put on Next() in this step.
FirstOffer == sOffered = {} /\ sOffered' # {}

\* The bytes written so far; the first Write wrote bytes 1 .. len(b).
Written(n) == [i \in 1 .. n |-> i]

FirstN(seq, n) == SubSeq(seq, 1, Min(Len(seq), n))

\* Close has deposited the EOF with all written bytes acknowledged: every
\* segment put on Next() is {start s + len(b), no data, fin}.
FinSegmentOffered ==
    (PutOnNext /\ wbuf'.sendEOF /\ ~wbuf'.sentEOF /\ sAdvance' = sDeposited')
        => sNext'[Len(sNext')] = [Start |-> Mod(SendStart + sDeposited'),
                                   Data |-> <<>>, Fin |-> TRUE]

\* Done() is true exactly when the ack of s + len(b) + 1 has been handled
\* after Close (without Fail).
DoneAfterFinalAck ==
    ~sFailErr => (SendDone <=> (wbuf.sendEOF /\ sAdvance = sDeposited + 1))

Moved == Len(rRead) + Len(rbuf.data)

\* Ack() is the initial sequence number plus the bytes moved into the
\* delivery buffer, plus one once the FIN has been consumed.
AckCountsMoved ==
    RecvAck = Mod(rStart + Moved + (IF rbuf.hitEOF THEN 1 ELSE 0))

\* A step of Handle (one that found something to do).
HandleStep == asm' # asm \/ rSeen' # rSeen \/ rFinSeen' # rFinSeen

\* After the step the byte at the position Ack() had before it has still
\* not been handled, and neither has a FIN at that position: the segment
\* lies beyond a gap.
StillGap ==
    /\ Mod(rStart + Moved) \notin rSeen'
    /\ ~(rFinSeen' /\ Moved = rStreamLen)
    /\ ~rbuf.hitEOF

BeyondGapChangesNothing ==
    (HandleStep /\ StillGap) => (RecvAck' = RecvAck /\ RecvDone' = RecvDone)

\* After the step the assembler holds nothing at Ack(): neither a received
\* byte nor the FIN waits at the front.
FrontDrained == rbuf.hitEOF \/ (~asm.mask[1] /\ asm.fin # 0)

InRead(r) == rdr[r].pc # "idle"

\* The locked part of Read of reader r runs and Read returns.
RdReturns(r) == rdr[r].pc = "lock" /\ rdr'[r].pc = "idle"

\* After Fail a Read gives the bytes at the front of the delivery buffer as
\* long as there are some, with no error but EOF with the last byte.
ReadGivesBuffered(r) ==
    (RdReturns(r) /\ rFailErr /\ Len(rbuf.data) > 0 /\ rdr[r].len > 0) =>
        /\ rdr'[r].res \in {"nil", "EOF"}
        /\ rRead' = rRead \o SubSeq(rbuf.data, 1, Min(rdr[r].len, Len(rbuf.data)))
        /\ rbuf'.data = SubSeq(rbuf.data, Min(rdr[r].len, Len(rbuf.data)) + 1,
                               Len(rbuf.data))

\* No reader waits on an open channel once failErr is set, and a reader
\* inside Read after Fail gets out of it.
FailWakesReaders ==
    /\ [](\A r \in Readers : (rFailErr /\ rdr[r].pc = "wait") => ~rdr[r].open)
    /\ \A r \in Readers : (rFailErr /\ InRead(r)) ~> ~InRead(r)

Refused(close) ==
    /\ EnterOutcome(close) \in {"timeout", "closedpipe", "fail"}
    /\ EnterOutcome(close) = "closedpipe" => wbuf.sendEOF
    /\ EnterOutcome(close) = "timeout" => (~close /\ sDeadline)

SetDeadlineStep == DlSetZero \/ \E g \in Deadlines : DlSet(g)

\* Caller c is blocked in the select of its call: its waiter's Chan is open.
DlBlocked(c) == dcall[c].pc = "select" /\ ~dcall[c].closed

\* C29: (1) once the deadline has fired, exceeded stays set until SetDeadline
\* is called, and every call that reaches Wait meanwhile returns the timeout
\* error and leaves the stream as it was; (2) when the deadline fires every
\* call blocked in its select has its channel closed, a call with its
\* channel closed does not stay in the select, and no call waits on a
\* channel that the manager has lost; (3) SetDeadline leaves exceeded unset,
\* exceeded is set and channels are closed only by the goroutine of the
\* deadline set last, and a call that finds exceeded unset goes to its
\* select and returns the timeout error only when its channel was closed.
C29_SocketDeadlines ==
    /\ [][/\ (dm.exceeded /\ ~dm'.exceeded) => SetDeadlineStep
          /\ \A c \in DlCallers :
               (dm.exceeded /\ dcall[c].pc = "enter" /\ dcall'[c].pc # "enter") =>
                   (dcall'[c].pc = "ret" /\ dcall'[c].res = "timeout"
                    /\ dstream' = dstream)
          /\ (~dm.exceeded /\ dm'.exceeded) =>
                 \A c \in DlCallers : dcall'[c].pc = "select" => dcall'[c].closed
          /\ SetDeadlineStep => ~dm'.exceeded
          /\ (\/ ~dm.exceeded /\ dm'.exceeded
              \/ \E c \in DlCallers : ~dcall[c].closed /\ dcall'[c].closed) =>
                 /\ dm.cancelCurrent \in Deadlines
                 /\ DlGoFire(dm.cancelCurrent)
                 /\ ~dgo[dm.cancelCurrent].cancelled
          /\ \A c \in DlCallers :
               (~dm.exceeded /\ dcall[c].pc = "enter" /\ dcall'[c].pc # "enter") =>
                   DlBlocked(c)'
          /\ \A c \in DlCallers :
               (dcall[c].pc = "select" /\ dcall'[c].res = "timeout") =>
                   dcall[c].closed
          /\ \A c \in DlCallers :
               (dcall[c].pc = "select" /\ dcall'[c].res = "ok") =>
                   dstream' # dstream]_vars
    /\ [](\A c \in DlCallers : DlBlocked(c) => c \in dm.waiters)
    /\ \A c \in DlCallers :
          (dcall[c].pc = "select" /\ dcall[c].closed) ~> dcall[c].pc # "select"

\* C29 witness: the second deadline has fired while a caller was blocked in
\* its select with nothing to receive or send; the caller's channel is
\* closed, and the other caller, which called after the deadline fired, has
\* returned the timeout error.
C29_Witness ==
    /\ dm.exceeded
    /\ dm.cancelCurrent = 2
    /\ dgo[1].cancelled
    /\ dcall[1].pc = "select"
    /\ dcall[1].closed
    /\ dcall[2].pc = "ret"
    /\ dcall[2].res = "timeout"
    /\ ~dstream.done
    /\ dkind = "read" => dstream.inc = 0
    /\ dkind = "write" => dstream.out = 1

\* The fragment offsets of a fragment list, in the order of the list.
Offsets(frags) == [k \in 1..Len(frags) |-> FragmentInfo(frags[k]).fragOffset]

StrictlyIncreasing(offs) ==
    \A k \in 1..(Len(offs) - 1) : offs[k] < offs[k + 1]

\* C30: the fragment list of every reassembly entry has strictly increasing
\* fragment offsets, whatever fragments were added and how often; and when
\* every fragment of a packet has arrived in time, some of them twice, the
\* packet has been reassembled.
C30_FragmentsStrictlyIncreasing ==
    /\ \A j \in 1..Len(recons) : StrictlyIncreasing(Offsets(recons[j].Fragments))
    /\ (/\ fragIn.written
        /\ WireUnfragmented(fragIn.pkt)
        /\ ~WireDontFragment(fragIn.pkt)
        /\ PacketLen(fragIn.pkt) >= fragIn.mtu
        /\ fragIn.mtu >= fragIn.pkt.hlen + BlockSize
        /\ dTimely
        /\ \A i \in 1..Len(wire) : ~IsOurs(wire[i]))
       => /\ Len(OursOut) >= 1
          /\ SameDatagram(OursOut[1], fragIn.pkt)

\* The entries of rs for the source and identification of packet p.
EntriesOf(rs, p) == {j \in 1..Len(rs) : Matches(rs[j], p)}

\* The step is the arrival of a packet at the defragmenting filter; the
\* packet is dLast'.pkt.
Arrival == Len(wire') < Len(wire)

\* The packet is a fragment for the filter: it goes to AddPacket.
IsFragment(p) == FragmentInfo(p).moreFrags \/ FragmentInfo(p).fragOffset # 0

\* What the arrival of fragment p at time clock makes of entry e: an expired
\* entry is gone, and if it was p's entry a fresh one holds p alone; an entry
\* still running keeps its drop time, and is gone only if it was p's entry
\* and the packet was reassembled.
EntryAfterArrival(e, p) ==
    LET same == {k \in 1..Len(recons') :
                   /\ recons'[k].Source = e.Source
                   /\ recons'[k].Identification = e.Identification}
    IN IF clock >= e.DropTime
       THEN IF Matches(e, p)
            THEN \A k \in same : /\ recons'[k].Fragments = <<p>>
                                 /\ recons'[k].DropTime = clock + DefragTimeout
            ELSE same = {}
       ELSE IF same = {}
            THEN Matches(e, p) /\ dLast'.out # NoPacket
            ELSE \A k \in same : recons'[k].DropTime = e.DropTime

\* C31: at most one reassembly entry per (source, identification); the drop
\* time of an entry is the arrival time of its first fragment plus the
\* timeout and never changes; a fragment arriving at or after the drop time
\* finds the old entry discarded and starts a fresh entry holding that
\* fragment alone; a reassembled entry is removed; nothing but the arrival
\* of a fragment changes the entries.
C31_ReassemblyEntries ==
    /\ [](\A j, k \in 1..Len(recons) :
            (recons[j].Source = recons[k].Source
             /\ recons[j].Identification = recons[k].Identification) => j = k)
    /\ [][IF Arrival /\ IsFragment(dLast'.pkt)
          THEN LET p == dLast'.pkt IN
               /\ \A j \in 1..Len(recons) : EntryAfterArrival(recons[j], p)
               /\ \A k \in 1..Len(recons') :
                    (\A j \in 1..Len(recons) :
                        ~(recons[j].Source = recons'[k].Source
                          /\ recons[j].Identification = recons'[k].Identification))
                    => /\ Matches(recons'[k], p)
                       /\ recons'[k].Fragments = <<p>>
                       /\ recons'[k].DropTime = clock + DefragTimeout
               /\ dLast'.out # NoPacket => EntriesOf(recons', p) = {}
          ELSE recons' = recons]_vars

\* C31 witness: a fragment of the written packet arrived after the drop time
\* of the entry that held an earlier fragment of the same packet; the entry
\* now holds the late fragment alone, with a later drop time, while the
\* entry of another packet goes on.
C31_Witness ==
    /\ dLast.pkt # NoPacket
    /\ IsOurs(dLast.pkt)
    /\ dFirst # -1
    /\ clock >= dFirst + DefragTimeout
    /\ ~dTimely
    /\ Len(recons) = 2
    /\ \E k \in 1..Len(recons) :
          /\ Matches(recons[k], dLast.pkt)
          /\ recons[k].Fragments = <<dLast.pkt>>
          /\ recons[k].DropTime = clock + DefragTimeout

\* The written packet is as long as the MTU or longer, unfragmented and with
\* DF clear in the wire format.
MustFragment ==
    /\ fragIn.written
    /\ PacketLen(fragIn.pkt) >= fragIn.mtu
    /\ WireUnfragmented(fragIn.pkt)
    /\ ~WireDontFragment(fragIn.pkt)

\* Nothing but what Write wrote for the packet is on the wire, and none of
\* it has arrived.
AllOnWire == fragIn.foreign = 0 /\ dLast.pkt = NoPacket

CeilDiv(a, b) == (a + b - 1) \div b

\* C32: for a packet that must be fragmented and an MTU with room for an
\* 8-byte block, Write puts ceil(payload / max_payload) fragments on the
\* wire in offset order, each with the header of the packet, all but the
\* last with max_payload bytes and MF set (bit 0x20 of byte 6), the last
\* with MF clear, each with the offset field of its payload start divided
\* by 8, none longer than the MTU, and the payloads together are the
\* payload of the packet.
C32_FragmentsWritten ==
    (MustFragment /\ AllOnWire /\ fragIn.mtu - fragIn.pkt.hlen >= BlockSize) =>
        LET P    == fragIn.pkt
            maxp == MaxPayload(P, fragIn.mtu)
            n    == CeilDiv(Len(P.payload), maxp)
        IN /\ fragIn.err = "nil"
           /\ Len(wire) = n
           /\ \A k \in 1..Len(wire) :
                /\ wire[k].hlen = P.hlen
                /\ wire[k].src = P.src
                /\ wire[k].id = P.id
                /\ wire[k].opt = P.opt
                /\ PacketLen(wire[k]) <= fragIn.mtu
                /\ WireFragmentOffset(wire[k]) * BlockSize = (k - 1) * maxp
                /\ k < Len(wire) => Len(wire[k].payload) = maxp
                /\ WireMoreFragments(wire[k]) = (k < Len(wire))
           /\ Payloads(wire, 1) = P.payload

\* C33: a Write of a packet as long as the MTU or longer returns an error
\* and puts nothing on the wire when DF is set (bit 0x40 of byte 6), when
\* the packet is a fragment already (MF, bit 0x20, set or offset not zero),
\* or when the MTU leaves less than 8 bytes after the header; a shorter
\* packet is put on the wire unchanged.
C33_FragmenterRefuses ==
    (fragIn.written /\ AllOnWire) =>
        IF PacketLen(fragIn.pkt) < fragIn.mtu
        THEN fragIn.err = "nil" /\ wire = <<fragIn.pkt>>
        ELSE (\/ WireDontFragment(fragIn.pkt)
              \/ WireMoreFragments(fragIn.pkt)
              \/ WireFragmentOffset(fragIn.pkt) # 0
              \/ fragIn.mtu - fragIn.pkt.hlen < BlockSize)
             => /\ fragIn.err \in {"packet cannot be fragmented",
                                   "packet is already fragmented",
                                   "no room for payload"}
                /\ wire = <<>>

\* The distance from Ack() to the end of the peer's stream, where its FIN
\* stands.
FinDistance == rStreamLen - Moved

\* C34: once the segment with the FIN has been handled, the FIN is not
\* lost: as soon as its offset fits in the assembler window (enough earlier
\* bytes have been skimmed), the assembler has it recorded at that offset,
\* with no further Handle of the FIN segment.
C34_DeferredFinKept ==
    (rFinSeen /\ ~rPanic /\ ~rbuf.hitEOF /\ FinDistance <= AsmLen) =>
        asm.fin = FinDistance

\* C35: Window() is the free capacity of the delivery buffer clamped to 16
\* bits, min(free capacity, 65535), whatever the size of the delivery buffer
\* and however full it is, and Put never panics with "buffer overflow".
C35_WindowClamped ==
    /\ RecvWindow = Min(Window(rbuf), 2 ^ WindowBits - 1)
    /\ ~rPanic

\* A step that puts a segment on Next().
Offer == Len(sNext') > Len(sNext)

\* C36: every segment put on Next() starts at the current send sequence;
\* with a remote window above zero it carries at most min(window, MSS) bytes;
\* with a remote window of zero Write, Close and Handle put nothing on Next(),
\* and what the timer puts there carries at most one byte.
C36_OfferedSegments ==
    [][Offer =>
          LET seg == sNext'[Len(sNext')]
          IN /\ seg.Start = wbuf'.sequence
             /\ sWindow' > 0 => Len(seg.Data) <= Min(sWindow', SendMSS)
             /\ sWindow' = 0 =>
                   /\ Len(seg.Data) <= 1
                   /\ wbuf' = wbuf /\ writers' = writers /\ sWindow' = sWindow
      ]_vars

\* The function of an expired timer runs tcpSendTimer.Send.
TimerRuns == SendTimerFire \/ \E i \in 1..MaxFired : SendTimerRuns(i)

\* C37: while something is unacknowledged, every expiry of the timer puts a
\* segment on Next() (when the channel has room) and arms the timer again;
\* and nothing is put on Next() while nothing is pending, so that after a
\* Handle that acknowledges everything no segment is offered until Write or
\* Close deposits something, however the timer's expiry and the Handle call
\* interleave.
C37_Retransmission ==
    [][/\ (TimerRuns /\ Remaining(wbuf) > 0 /\ sNext = <<>>) =>
              (Offer /\ sTimer'.armed)
       /\ Offer => Remaining(wbuf') > 0
      ]_vars

\* C38: once a later SetDeadline has returned, the goroutine of an earlier
\* deadline closes no waiter's channel and does not set exceeded, whenever
\* its timer expires; and a channel that is closed is no longer among the
\* waiters, so that none is closed twice.
C38_StaleDeadlineSilent ==
    /\ [](\A c \in dm.waiters : ~dcall[c].closed)
    /\ [][\A g \in Deadlines :
             (DlGoFire(g) /\ dm.cancelCurrent # g) => (dcall' = dcall /\ dm' = dm)
         ]_vars

\* C38 witness: the timer of the first deadline has expired, a second
\* SetDeadline has returned before the goroutine took the lock, and a call
\* is waiting.
C38_Witness ==
    \E g \in Deadlines :
        /\ dgo[g].pc = "due"
        /\ dgo[g].cancelled
        /\ dm.cancelCurrent \notin {0, g}
        /\ dm.waiters # {}

\* C39: a handshake that fails because its retries are exhausted ends that
\* attempt only: the loop of the listener ends, the conns channel is closed
\* and Accept reports end-of-stream only after the listener or the stream
\* under it has been closed.
C39_ListenerSurvives ==
    /\ al.pc = "exit" => al.mclosed
    /\ al.closed => al.mclosed
    /\ al.eof => al.mclosed

\* C40: handleIncoming never sends on a child's incoming channel that is
\* closed; and what the multiplexer does under its lock never waits for a
\* child: a fan-out step can always be taken and gives the packet to every
\* listed child with room, however full the other children are, and Close
\* and Fork can be taken whenever they are called.
C40_FanOutNeverBlocks ==
    /\ [](mux.panic # "send on closed channel")
    /\ []((mux.panic = "none" /\ mux.loop = "handle") => ENABLED MuxHandleIncoming)
    /\ [](mux.panic = "none" =>
             /\ ENABLED (\E res \in {"nil", "AlreadyClosedErr"} : MuxClose(res))
             /\ \A c \in ChildIds :
                   (~kids[c].forked /\ \A d \in ChildIds : d < c => kids[d].forked) =>
                       ENABLED MuxFork(c, 1))
    /\ [][(MuxHandleIncoming /\ ~mux.closed) =>
             \A c \in Range(mux.children) :
                 /\ ~kids[c].incClosed
                 /\ Len(kids[c].queue) < kids[c].cap =>
                       kids'[c].queue = Append(kids[c].queue, mux.pkt)
         ]_vars

\* C40 witness: one child's channel is full of packets it never read, and
\* another child has been given a later packet all the same.
C40_Witness ==
    \E c, d \in ChildIds :
        /\ mux.panic = "none"
        /\ kids[c].forked /\ kids[d].forked
        /\ ~kids[c].incClosed
        /\ Len(kids[c].queue) = kids[c].cap
        /\ 2 \notin Range(kids[c].queue)
        /\ 2 \in Range(kids[d].queue)

=============================================================================
